---- MODULE Spec2Model ----
(***************************************************************************)
(* QingChenMail: the persistent send queue, its worker ticks and the       *)
(* campaign engine (start / pause / resume / fan-out / completion check).  *)
(* Every database statement of the Go code is one atomic step; goroutines  *)
(* and in-flight HTTP handlers carry the values they read in their state.  *)
(* Further sections model the delivery engine (internal/mailer/sender.go)  *)
(* and the SMTP receiver with its rate limiter and forward rules           *)
(* (internal/receiver/server.go), each under a specification of its own.   *)
(***************************************************************************)
EXTENDS Integers, Sequences, FiniteSets, TLC

\* ---- program constants (internal/mailer/queue.go) ----
MaxRetries == 3
WorkerPool == 5

\* ---- bounds of the model ----
NumInstances == 2   \* processes running StartQueueWorker against one database
MaxTasks == 2       \* rows the email_queues table may hold
MaxContacts == 2    \* recipients a campaign start may expand to
MaxStarts == 2      \* fan-out goroutines ever spawned for the campaign
MaxDirect == 1      \* rows enqueued by SendEmailAsync (campaign_id = 0)
ClusterTasks == 1   \* rows enqueued by SendEmailAsync when several instances run

Instances == 1..NumInstances
SingleProcess == {1}   \* the documented deployment: one process owns the database

VARIABLES
    campaign,   \* the Campaign row: status and the count columns
    queue,      \* the email_queues table, indexed by primary key
    tick,       \* per instance: position of processQueue and what it has read
    workers,    \* goroutines spawned by processQueue for claimed tasks
    fanout,     \* per ProcessCampaign call: contacts its goroutine has left
    admin,      \* the HTTP campaign handler in flight, with the status it read
    sched,      \* checkScheduledCampaigns: the campaigns its query returned
    send,       \* the SendEmail call in progress: request, position, result
    emailLog,   \* the email_logs table
    wire,       \* what the delivery engine did on the network, in order
    config,     \* config.AppConfig and the TLS context loaded at start
    rules,      \* the domains and forward_rules tables
    session,    \* the SMTPSession of the connection being served
    inbox,      \* the inboxes table
    forwardLog, \* the forward_logs table
    limiter,    \* RateLimiter.requests
    clock,      \* time.Now()
    conns,      \* what each accepted TCP connection was answered first
    client,     \* the SMTP client's side: what it has been told, what it is sending
    purged,     \* primary keys of the email_queues rows that were hard-deleted
    cleaner,    \* per caller of RunCleanup: its position and what it has read
    isRunning,  \* cleanup.isRunning, guarded by cleanupMutex
    files,      \* the attachment_files table, indexed by primary key
    disk,       \* the paths that exist under data/
    http,       \* the admin API requests in flight, each with what it has read
    smtpConfigs, \* the smtp_configs table (the channels), indexed by primary key
    contacts,   \* the contacts table, indexed by primary key
    configFile, \* config.json: absent or the fields it holds
    AppConfig,  \* config.AppConfig as LoadConfig leaves it
    schema,     \* the schema_versions table, in insertion order
    migrator    \* runMigrations of the process start in progress, and what has run

\* the state of the delivery engine and of the SMTP receiver
mailVars == <<send, emailLog, wire, config, rules, session, inbox, forwardLog,
              limiter, clock, conns, client>>

\* the state of maintenance and administration
tableVars == <<smtpConfigs, contacts>>
bootVars == <<configFile, AppConfig, schema, migrator>>
opsVars == <<purged, cleaner, isRunning, files, disk, http, tableVars, bootVars>>

vars == <<campaign, queue, tick, workers, fanout, admin, sched, mailVars, opsVars>>

\* ---- helpers ----
Min(a, b) == IF a <= b THEN a ELSE b

RECURSIVE SortedSeq(_)
SortedSeq(S) ==
    IF S = {} THEN <<>>
    ELSE LET m == CHOOSE x \in S : \A y \in S : x <= y
         IN <<m>> \o SortedSeq(S \ {m})

TaskIds == (1..Len(queue)) \ purged
CampaignTasks == {t \in TaskIds : queue[t].campaign_id > 0}
DirectTasks == {t \in TaskIds : queue[t].campaign_id = 0}

\* rows the fan-out goroutines will still create
FanoutLeft(f) == f.left
RECURSIVE SumLeft(_)
SumLeft(s) == IF s = <<>> THEN 0 ELSE FanoutLeft(Head(s)) + SumLeft(Tail(s))

IdleTick == [pc |-> "idle", paused |-> {}, sel |-> <<>>]
IdleAdmin == [op |-> "none", seen |-> "none"]

\* who calls RunCleanup: the scheduler goroutine and the HTTP handler
Callers == {"StartScheduler", "RunCleanupHandler"}
IdleCleaner == [pc |-> "idle", cutoff |-> 0, ids |-> {}, todo |-> {}, result |-> "none"]

\* no SendEmail call in progress
IdleSend == [pc |-> "idle", req |-> 0, channel |-> 0, mx |-> <<>>, next |-> 1,
             result |-> "none", reason |-> "none"]

\* the empty string where an address is expected
NoAddr == [local |-> <<>>, domain |-> <<>>, at |-> 0]

\* no connection being served
NoSession == [pc |-> "closed", remoteIP |-> <<0, 0>>, from |-> NoAddr, to |-> <<>>,
              data |-> <<>>, inData |-> FALSE, tlsEnabled |-> FALSE,
              cmd |-> "none", reply |-> 0, n |-> 0]

\* a client that has sent nothing: no HELO accepted, not inside a message
NoClient == [helo |-> FALSE, msg |-> 0, started |-> 0, rejected |-> {}]

\* the domains and forward_rules tables, empty
NoRules == [domains |-> <<>>, rules |-> <<>>]

\* the receiver's defaults: no TLS context, no limits, nothing blacklisted
DefaultConfig == [tls |-> FALSE, require_tls |-> FALSE, max_msg_size |-> 0,
                  rate_limit |-> 0, blacklist |-> {}, channels |-> {},
                  default_channel |-> 0, cleanup_queue_days |-> 0,
                  cleanup_attach_days |-> 0]

QueueInit ==
    /\ campaign = [id |-> 1, status |-> "draft", total_count |-> 0, sent_count |-> 0,
                   success_count |-> 0, fail_count |-> 0, open_count |-> 0]
    /\ queue = <<>>
    /\ tick = [i \in Instances |-> IdleTick]
    /\ workers = {}
    /\ fanout = <<>>
    /\ admin = IdleAdmin
    /\ sched = "idle"

MailInit ==
    /\ send = IdleSend
    /\ emailLog = <<>>
    /\ wire = <<>>
    /\ config = DefaultConfig
    /\ rules = NoRules
    /\ session = NoSession
    /\ inbox = <<>>
    /\ forwardLog = <<>>
    /\ limiter = <<>>
    /\ clock = 0
    /\ conns = <<>>
    /\ client = NoClient

\* no channel, no contact
TablesInit ==
    /\ smtpConfigs = <<>>
    /\ contacts = <<>>

\* before the first start: LoadConfig has not run, no migration has run
NotLoaded == [loaded |-> FALSE]
IdleMigrator == [pc |-> "idle", migrations |-> 0, currentVer |-> 0, next |-> 1,
                 starts |-> 0, before |-> 0, ran |-> <<>>]
NoConfigFile == [exists |-> FALSE]
BootInit(file) ==
    /\ configFile = file
    /\ AppConfig = NotLoaded
    /\ schema = <<>>
    /\ migrator = IdleMigrator

\* nothing deleted, no cleanup running, no attachment stored; config.json as
\* found in the working directory
OpsInitWith(file) ==
    /\ purged = {}
    /\ cleaner = [p \in Callers |-> IdleCleaner]
    /\ isRunning = FALSE
    /\ files = <<>>
    /\ disk = {}
    /\ http = {}
    /\ TablesInit
    /\ BootInit(file)

OpsInit == OpsInitWith(NoConfigFile)

Init == QueueInit /\ MailInit /\ OpsInit

\* ---- SendEmailAsync: a row with no campaign ----
SendEmailAsync(maxDirect) ==
    /\ Len(queue) + SumLeft(fanout) < MaxTasks
    /\ Cardinality(DirectTasks) < maxDirect
    /\ queue' = Append(queue, [campaign_id |-> 0, status |-> "pending", retries |-> 0,
                               due |-> TRUE, tracking_id |-> 0, created_at |-> clock])
    /\ UNCHANGED <<opsVars, mailVars, campaign, tick, workers, fanout, admin, sched>>

\* ---- processQueue: the worker tick of one instance ----
\* the WHERE clause of the task query (queue.go:73-76)
Claimable(row) ==
    \/ row.status = "pending"
    \/ (row.status = "failed" /\ row.retries < MaxRetries /\ row.due)

\* a query without the paused-campaign clause
NotPausedIgnored(row, pausedCampaignIDs) == TRUE

\* the extra WHERE added when some campaign is paused (queue.go:79-81)
NotPaused(row, pausedCampaignIDs) ==
    \/ pausedCampaignIDs = {}
    \/ row.campaign_id \notin pausedCampaignIDs
    \/ row.campaign_id = 0

Candidates(pausedCampaignIDs) ==
    {t \in TaskIds : Claimable(queue[t]) /\ NotPaused(queue[t], pausedCampaignIDs)}

\* a query without its Limit
Unlimited(S) == {S}

\* Limit(WorkerPool) without ORDER BY: any WorkerPool of the matching rows
Limited(S) == {T \in SUBSET S : Cardinality(T) = Min(WorkerPool, Cardinality(S))}

Snapshot(t) == [id |-> t, campaign_id |-> queue[t].campaign_id, retries |-> queue[t].retries]

RECURSIVE Snapshots(_)
Snapshots(ids) ==
    IF ids = <<>> THEN <<>> ELSE <<Snapshot(Head(ids))>> \o Snapshots(Tail(ids))

\* Pluck of the paused campaign ids (queue.go:68-71)
PluckPaused(i) ==
    /\ tick[i].pc = "idle"
    /\ tick' = [tick EXCEPT ![i] =
                  [pc |-> "find",
                   paused |-> IF campaign.status = "paused" THEN {campaign.id} ELSE {},
                   sel |-> <<>>]]
    /\ UNCHANGED <<opsVars, mailVars, campaign, queue, workers, fanout, admin, sched>>

\* Find of at most WorkerPool tasks (queue.go:83-92)
FindTasks(i) ==
    /\ tick[i].pc = "find"
    /\ \E T \in Limited(Candidates(tick[i].paused)) :
          tick' = [tick EXCEPT ![i] =
                     IF T = {} THEN IdleTick
                     ELSE [pc |-> "claim", paused |-> {},
                           sel |-> Snapshots(SortedSeq(T))]]
    /\ UNCHANGED <<opsVars, mailVars, campaign, queue, workers, fanout, admin, sched>>

\* an update that leaves out the status condition
RowsAffectedUnconditional(t) == 1

\* RowsAffected of the conditional update (queue.go:98-100)
RowsAffected(t) ==
    IF t \in TaskIds /\ queue[t].status \in {"pending", "failed"} THEN 1 ELSE 0

\* one iteration of the claim loop (queue.go:94-144)
ClaimTask(i) ==
    /\ tick[i].pc = "claim"
    /\ LET task == Head(tick[i].sel)
           rest == Tail(tick[i].sel)
       IN /\ IF RowsAffected(task.id) = 0
             THEN UNCHANGED <<queue, workers>>
             ELSE /\ queue' = [queue EXCEPT ![task.id].status = "processing"]
                  /\ workers' = workers \cup
                        {[inst |-> i, id |-> task.id, campaign_id |-> task.campaign_id,
                          retries |-> task.retries, pc |-> "execute",
                          success |-> FALSE, pendingCount |-> 0]}
          /\ tick' = [tick EXCEPT ![i] =
                        IF rest = <<>> THEN IdleTick
                        ELSE [tick[i] EXCEPT !.sel = rest]]
    /\ UNCHANGED <<opsVars, mailVars, campaign, fanout, admin, sched>>

processQueue(i) == PluckPaused(i) \/ FindTasks(i) \/ ClaimTask(i)

\* ---- the goroutine of a claimed task (queue.go:108-143) ----
\* a goroutine's record keeps a local value only while its code still reads it
Replace(w, v) == (workers \ {w}) \cup {v}

\* a threshold one attempt too low
IsFinalFailureEarly(newRetries) == newRetries >= MaxRetries - 1

\* queue.go:114
IsFinalFailure(newRetries) == newRetries >= MaxRetries

\* statistics on every failure, final or not
CountsEveryFailure(final, campaign_id) == campaign_id > 0

\* queue.go:128
CountsAgainstCampaign(final, campaign_id) == final /\ campaign_id > 0

\* executeTask returned an error: Updates of status, retries, next_retry (queue.go:111-130)
TaskFailed(w) ==
    /\ w.pc = "execute"
    /\ LET newRetries == w.retries + 1
           final == IsFinalFailure(newRetries)
       IN /\ queue' = [queue EXCEPT ![w.id] =
                         [@ EXCEPT !.status = IF final THEN "dead" ELSE "failed",
                                   !.retries = newRetries,
                                   !.due = FALSE]]
          /\ workers' = IF CountsAgainstCampaign(final, w.campaign_id)
                        THEN Replace(w, [w EXCEPT !.pc = "count", !.success = FALSE, !.retries = 0])
                        ELSE workers \ {w}
    /\ UNCHANGED <<opsVars, mailVars, campaign, tick, fanout, admin, sched>>

\* executeTask returned nil: Updates of status (queue.go:131-141)
TaskSucceeded(w) ==
    /\ w.pc = "execute"
    /\ queue' = [queue EXCEPT ![w.id].status = "completed"]
    /\ workers' = IF w.campaign_id > 0
                  THEN Replace(w, [w EXCEPT !.pc = "count", !.success = TRUE, !.retries = 0])
                  ELSE workers \ {w}
    /\ UNCHANGED <<opsVars, mailVars, campaign, tick, fanout, admin, sched>>

\* the clock reaches next_retry of a failed task
RetryDue(t) ==
    /\ queue[t].status = "failed"
    /\ ~queue[t].due
    /\ queue' = [queue EXCEPT ![t].due = TRUE]
    /\ UNCHANGED <<opsVars, mailVars, campaign, tick, workers, fanout, admin, sched>>

\* updateCampaignStats, first statement: success_count + 1 or fail_count + 1 (queue.go:177-185)
CountOutcome(w) ==
    /\ w.pc = "count"
    /\ campaign' = IF w.success
                   THEN [campaign EXCEPT !.success_count = @ + 1]
                   ELSE [campaign EXCEPT !.fail_count = @ + 1]
    /\ workers' = Replace(w, [w EXCEPT !.pc = "sent", !.success = FALSE])
    /\ UNCHANGED <<opsVars, mailVars, queue, tick, fanout, admin, sched>>

\* updateCampaignStats, second statement: sent_count + 1 (queue.go:188-190)
CountSent(w) ==
    /\ w.pc = "sent"
    /\ campaign' = [campaign EXCEPT !.sent_count = @ + 1]
    /\ workers' = Replace(w, [w EXCEPT !.pc = "check"])
    /\ UNCHANGED <<opsVars, mailVars, queue, tick, fanout, admin, sched>>

\* checkCampaignCompletion: First(&campaign) and the status test (queue.go:198-206)
CheckStatus(w) ==
    /\ w.pc = "check"
    /\ workers' = IF campaign.status # "processing"
                  THEN workers \ {w}
                  ELSE Replace(w, [w EXCEPT !.pc = "pending"])
    /\ UNCHANGED <<opsVars, mailVars, campaign, queue, tick, fanout, admin, sched>>

\* a count that also takes finished rows for unfinished
PendingCountAnyStatus(c) ==
    Cardinality({t \in TaskIds : queue[t].campaign_id = c})

\* queue.go:211-213
PendingCount(c) ==
    Cardinality({t \in TaskIds : queue[t].campaign_id = c
                                 /\ queue[t].status \in {"pending", "processing"}})

\* queue.go:217-219
RetryableCount(c) ==
    Cardinality({t \in TaskIds : queue[t].campaign_id = c
                                 /\ queue[t].status = "failed"
                                 /\ queue[t].retries < MaxRetries})

CountPending(w) ==
    /\ w.pc = "pending"
    /\ workers' = Replace(w, [w EXCEPT !.pc = "retryable",
                                       !.pendingCount = PendingCount(w.campaign_id)])
    /\ UNCHANGED <<opsVars, mailVars, campaign, queue, tick, fanout, admin, sched>>

\* the second count and the test of both (queue.go:217-222)
CountRetryable(w) ==
    /\ w.pc = "retryable"
    /\ workers' = IF w.pendingCount = 0 /\ RetryableCount(w.campaign_id) = 0
                  THEN Replace(w, [w EXCEPT !.pc = "mark", !.pendingCount = 0])
                  ELSE workers \ {w}
    /\ UNCHANGED <<opsVars, mailVars, campaign, queue, tick, fanout, admin, sched>>

\* Update("status", "completed") (queue.go:224-225)
MarkCompleted(w) ==
    /\ w.pc = "mark"
    /\ campaign' = [campaign EXCEPT !.status = "completed"]
    /\ workers' = workers \ {w}
    /\ UNCHANGED <<opsVars, mailVars, queue, tick, fanout, admin, sched>>

updateCampaignStats(w) == CountOutcome(w) \/ CountSent(w)

checkCampaignCompletion(w) ==
    CheckStatus(w) \/ CountPending(w) \/ CountRetryable(w) \/ MarkCompleted(w)

\* ---- ProcessCampaign and its fan-out goroutine (campaign engine) ----
\* the status test of ProcessCampaign and of StartCampaignHandler
AlreadyProcessed(status) == status = "processing" \/ status = "completed"

\* contacts a start may expand to while the table bound leaves room for their rows
Expandable == 0..Min(MaxContacts, MaxTasks - (Len(queue) + SumLeft(fanout)))

\* ProcessCampaign on a Campaign value read earlier with status `seen`:
\* n contacts found, senderOK = the sender channel exists
ProcessCampaign(seen, n, senderOK) ==
    IF AlreadyProcessed(seen)
    THEN UNCHANGED <<campaign, fanout>>
    ELSE IF n = 0 \/ ~senderOK
    THEN /\ campaign' = [campaign EXCEPT !.status = "failed"]
         /\ UNCHANGED fanout
    ELSE /\ campaign' = [campaign EXCEPT !.status = "processing",
                                         !.total_count = n,
                                         !.sent_count = 0]
         /\ fanout' = Append(fanout, [left |-> n])

\* uuid.New(): a value no earlier row carries
NewTrackingID == 1 + Cardinality(CampaignTasks)

\* one iteration of the fan-out loop: DB.Create of the recipient's task
FanoutEnqueue(k) ==
    /\ fanout[k].left > 0
    /\ queue' = Append(queue, [campaign_id |-> campaign.id, status |-> "pending",
                               retries |-> 0, due |-> TRUE,
                               tracking_id |-> NewTrackingID, created_at |-> clock])
    /\ fanout' = [fanout EXCEPT ![k].left = @ - 1]
    /\ UNCHANGED <<opsVars, mailVars, campaign, tick, workers, admin, sched>>

\* ctx.Done() seen at the top of an iteration, or a recovered panic
FanoutAbort(k) ==
    /\ fanout[k].left > 0
    /\ campaign' = [campaign EXCEPT !.status = "failed"]
    /\ fanout' = [fanout EXCEPT ![k].left = 0]
    /\ UNCHANGED <<opsVars, mailVars, queue, tick, workers, admin, sched>>

\* ---- campaign HTTP handlers: DB.First, then the test, then the update ----
ReadCampaign(op) ==
    /\ admin.op = "none"
    /\ op = "start" => Len(fanout) < MaxStarts
    /\ admin' = [op |-> op, seen |-> campaign.status]
    /\ UNCHANGED <<opsVars, mailVars, campaign, queue, tick, workers, fanout, sched>>

\* contactCounts: the sizes the target expansion may have
StartCampaignHandler(contactCounts) ==
    /\ admin.op = "start"
    /\ admin' = IdleAdmin
    /\ IF AlreadyProcessed(admin.seen)
       THEN UNCHANGED <<campaign, fanout>>
       ELSE \/ /\ campaign' = [campaign EXCEPT !.status = "scheduled"]
               /\ UNCHANGED fanout
            \/ \E n \in contactCounts, senderOK \in BOOLEAN :
                  ProcessCampaign(admin.seen, n, senderOK)
    /\ UNCHANGED <<opsVars, mailVars, queue, tick, workers, sched>>

CanPause(status) == status = "processing"

PauseCampaignHandler ==
    /\ admin.op = "pause"
    /\ admin' = IdleAdmin
    /\ campaign' = IF CanPause(admin.seen)
                   THEN [campaign EXCEPT !.status = "paused"]
                   ELSE campaign
    /\ UNCHANGED <<opsVars, mailVars, queue, tick, workers, fanout, sched>>

CanResume(status) == status = "paused"

ResumeCampaignHandler ==
    /\ admin.op = "resume"
    /\ admin' = IdleAdmin
    /\ campaign' = IF CanResume(admin.seen)
                   THEN [campaign EXCEPT !.status = "processing"]
                   ELSE campaign
    /\ UNCHANGED <<opsVars, mailVars, queue, tick, workers, fanout, sched>>

\* ---- checkScheduledCampaigns: the query, then ProcessCampaign on what it returned ----
FindScheduled ==
    /\ sched = "idle"
    /\ campaign.status = "scheduled"
    /\ Len(fanout) < MaxStarts
    /\ sched' = "found"
    /\ UNCHANGED <<opsVars, mailVars, campaign, queue, tick, workers, fanout, admin>>

PromoteScheduled ==
    /\ sched = "found"
    /\ sched' = "idle"
    /\ \E n \in Expandable, senderOK \in BOOLEAN : ProcessCampaign("scheduled", n, senderOK)
    /\ UNCHANGED <<opsVars, mailVars, queue, tick, workers, admin>>

checkScheduledCampaigns == FindScheduled \/ PromoteScheduled

Next ==
    \/ SendEmailAsync(MaxDirect)
    \/ \E i \in SingleProcess : processQueue(i)
    \/ \E w \in workers : TaskFailed(w) \/ TaskSucceeded(w)
    \/ \E t \in TaskIds : RetryDue(t)
    \/ \E w \in workers : updateCampaignStats(w) \/ checkCampaignCompletion(w)
    \/ \E op \in {"start", "pause", "resume"} : ReadCampaign(op)
    \/ StartCampaignHandler(Expandable)
    \/ PauseCampaignHandler
    \/ ResumeCampaignHandler
    \/ checkScheduledCampaigns
    \/ \E k \in 1..Len(fanout) : FanoutEnqueue(k) \/ FanoutAbort(k)

Spec == Init /\ [][Next]_vars

\* ---- the campaign engine driven by admin requests, with fair goroutines ----
NextCampaign ==
    \/ \E i \in SingleProcess : processQueue(i)
    \/ \E w \in workers : TaskFailed(w) \/ TaskSucceeded(w)
    \/ \E t \in TaskIds : RetryDue(t)
    \/ \E w \in workers : updateCampaignStats(w) \/ checkCampaignCompletion(w)
    \/ \E op \in {"start", "pause", "resume"} : ReadCampaign(op)
    \/ StartCampaignHandler(Expandable)
    \/ PauseCampaignHandler
    \/ ResumeCampaignHandler
    \/ \E k \in 1..Len(fanout) : FanoutEnqueue(k) \/ FanoutAbort(k)

\* the Go scheduler runs every goroutine it has started: the goroutine of a
\* claimed task sends and writes its outcome
Deliver(t) == \E w \in workers : w.id = t /\ (TaskFailed(w) \/ TaskSucceeded(w))

SpecFair == Init /\ [][NextCampaign]_vars /\ \A t \in 1..MaxTasks : WF_vars(Deliver(t))

\* ---- one start, every delivery succeeds, the fan-out is not cut short ----
Account(t) ==
    \E w \in workers : w.id = t /\ (TaskSucceeded(w) \/ updateCampaignStats(w)
                                     \/ checkCampaignCompletion(w))

NextHappy ==
    \/ ReadCampaign("start") /\ campaign.status = "draft"
    \/ StartCampaignHandler(1..MaxContacts) /\ campaign'.status = "processing"
    \/ \E k \in 1..Len(fanout) : FanoutEnqueue(k)
    \/ \E i \in SingleProcess : processQueue(i)
    \/ \E t \in TaskIds : Account(t)

\* the ticker fires every two seconds and every goroutine runs; the admin
\* sends the start request
SpecHappy ==
    /\ Init
    /\ [][NextHappy]_vars
    /\ WF_vars(NextHappy /\ admin' # admin)
    /\ WF_vars(\E k \in 1..Len(fanout) : FanoutEnqueue(k))
    /\ WF_vars(\E i \in SingleProcess : processQueue(i))
    /\ \A t \in 1..MaxTasks : WF_vars(Account(t))

\* ---- a campaign larger than the pool width: selection and claim only ----
PoolContacts == WorkerPool + 1

NextPool ==
    \/ ReadCampaign("start") /\ campaign.status = "draft"
    \/ \E op \in {"pause", "resume"} : ReadCampaign(op)
    \/ StartCampaignHandler({PoolContacts}) /\ campaign'.status = "processing"
    \/ PauseCampaignHandler
    \/ ResumeCampaignHandler
    \/ \E k \in 1..Len(fanout) : FanoutEnqueue(k)
    \/ \E i \in SingleProcess : processQueue(i) /\ fanout # <<>> /\ SumLeft(fanout) = 0

SpecPool == Init /\ [][NextPool]_vars

\* ---- several instances polling one queue (queue.go:97) ----
NextCluster ==
    \/ SendEmailAsync(ClusterTasks)
    \/ \E i \in Instances : processQueue(i)
    \/ \E w \in workers : TaskFailed(w) \/ TaskSucceeded(w)
    \/ \E t \in TaskIds : RetryDue(t)

SpecCluster == Init /\ [][NextCluster]_vars

\* ======================= the delivery engine =======================
\* (internal/mailer/sender.go)  One SendEmail call runs at a time in this part
\* of the model; DKIM signing is left out: its failures are ignored by the code
\* and it writes nothing.
MaxSends == 1       \* SendEmail calls
MaxMX == 2          \* MX records a lookup may return
MaxPref == 2        \* MX preference values

queueVars == <<campaign, queue, tick, workers, fanout, admin, sched>>
receiverVars == <<rules, session, inbox, forwardLog, limiter, clock, conns, client>>

\* req.ChannelID: automatic routing, the configured channel, a channel that does not exist
ChannelIDs == {0, 1, 2}

\* failures before the channel is selected (sender.go:56-122)
BuildErrors == {"invalid_from", "invalid_to", "invalid_attachment_base64", "msg_build_failed"}

Hosts == 1..MaxMX
MXRecord == [host : Hosts, pref : 1..MaxPref]

\* what net.LookupMX may return: records of distinct hosts, in any order
MXLists ==
    {l \in UNION {[1..n -> MXRecord] : n \in 0..MaxMX} :
        \A i, j \in 1..Len(l) : i # j => l[i].host # l[j].host}

\* the records left as the lookup returned them
Unsorted(records) == {records}

\* sort.Slice by Pref: ascending, records of equal preference in any order
SortedByPref(records) ==
    {l \in [1..Len(records) -> {records[i] : i \in 1..Len(records)}] :
        /\ \A i, j \in 1..Len(l) : i # j => l[i] # l[j]
        /\ \A i, j \in 1..Len(l) : i < j => l[i].pref <= l[j].pref}

\* the channel column of a failure row (sender.go:331-337)
ErrorChannel(channelID) == IF channelID > 0 THEN <<"smtp", channelID>> ELSE <<"auto", 0>>

\* logAndReturnError: the row it creates (sender.go:326-349)
FailedRow(reason) ==
    [req |-> send.req, status |-> "failed", error |-> reason,
     channel |-> ErrorChannel(send.channel)]

\* logSuccess: the row it creates (sender.go:351-360)
SuccessRow(channel) ==
    [req |-> send.req, status |-> "success", error |-> "none", channel |-> channel]

\* return of SendEmail with an error, after logAndReturnError
ReturnError(reason) ==
    /\ emailLog' = Append(emailLog, FailedRow(reason))
    /\ send' = [send EXCEPT !.pc = "done", !.result = "err", !.reason = reason]

\* return of SendEmail with nil, after logSuccess
ReturnSuccess(channel) ==
    /\ emailLog' = Append(emailLog, SuccessRow(channel))
    /\ send' = [send EXCEPT !.pc = "done", !.result = "ok"]

\* the call: SendEmail(req)
SendEmail(channelID) ==
    /\ send.pc = "idle"
    /\ send.req < MaxSends
    /\ send' = [IdleSend EXCEPT !.pc = "build", !.req = send.req + 1, !.channel = channelID]
    /\ UNCHANGED <<opsVars, queueVars, receiverVars, config, emailLog, wire>>

\* steps 1-3: addresses, attachments, MIME bytes
BuildMessage(ok, reason) ==
    /\ send.pc = "build"
    /\ IF ok
       THEN send' = [send EXCEPT !.pc = "select"] /\ UNCHANGED emailLog
       ELSE ReturnError(reason)
    /\ UNCHANGED <<opsVars, queueVars, receiverVars, config, wire>>

\* automatic routing that goes to direct send at once
AutoRouteDirect == "direct"

\* channel id 0: the default channel first when the table has one (sender.go:179-181)
AutoRoute == IF config.default_channel # 0 THEN "default" ELSE "direct"

\* step 5: the branch on req.ChannelID, with sendByRelay's lookup of the
\* channel and the lookup of the default channel
SelectChannel ==
    /\ send.pc = "select"
    /\ IF send.channel > 0
       THEN IF send.channel \in config.channels
            THEN send' = [send EXCEPT !.pc = "relay"] /\ UNCHANGED emailLog
            ELSE ReturnError("smtp_config_not_found")
       ELSE /\ send' = [send EXCEPT !.pc = AutoRoute]
            /\ UNCHANGED emailLog
    /\ UNCHANGED <<opsVars, queueVars, receiverVars, config, wire>>

\* the SMTPConfig the relay step uses
RelayConfig == IF send.pc = "relay" THEN send.channel ELSE config.default_channel

\* sendWithSMTPConfig, called by sendByRelay or for the default channel
sendWithSMTPConfig(ok) ==
    /\ send.pc \in {"relay", "default"}
    /\ wire' = Append(wire, [req |-> send.req, via |-> "relay", host |-> RelayConfig,
                             pref |-> 0, ok |-> ok])
    /\ IF ok
       THEN ReturnSuccess(<<"smtp", RelayConfig>>)
       ELSE IF send.pc = "relay"
            THEN ReturnError("smtp_send_error")
            ELSE \* the default channel failed: its error is dropped, direct send follows
                 /\ emailLog' = Append(emailLog, FailedRow("smtp_send_error"))
                 /\ send' = [send EXCEPT !.pc = "direct"]
    /\ UNCHANGED <<opsVars, queueVars, receiverVars, config>>

\* sendByDirect: the MX lookup and the sort
LookupMX(records, lookupFailed) ==
    /\ send.pc = "direct"
    /\ wire' = Append(wire, [req |-> send.req, via |-> "lookup", host |-> 0,
                             pref |-> 0, ok |-> ~lookupFailed])
    /\ IF lookupFailed \/ Len(records) = 0
       THEN ReturnError("mx_lookup_failed")
       ELSE /\ \E sorted \in SortedByPref(records) :
                  send' = [send EXCEPT !.pc = "mx", !.mx = sorted, !.next = 1]
            /\ UNCHANGED emailLog
    /\ UNCHANGED <<opsVars, queueVars, receiverVars, config>>

\* sendByDirect: one turn of the loop over the MX records
DialMX(ok) ==
    /\ send.pc = "mx"
    /\ send.next <= Len(send.mx)
    /\ wire' = Append(wire, [req |-> send.req, via |-> "direct",
                             host |-> send.mx[send.next].host,
                             pref |-> send.mx[send.next].pref, ok |-> ok])
    /\ IF ok
       THEN ReturnSuccess(<<"direct", 0>>)
       ELSE send' = [send EXCEPT !.next = send.next + 1] /\ UNCHANGED emailLog
    /\ UNCHANGED <<opsVars, queueVars, receiverVars, config>>

\* sendByDirect: the loop ended without a success
DirectSendFailed ==
    /\ send.pc = "mx"
    /\ send.next > Len(send.mx)
    /\ ReturnError("direct_send_failed")
    /\ UNCHANGED <<opsVars, queueVars, receiverVars, config, wire>>

sendByDirect ==
    \/ \E records \in MXLists, lookupFailed \in BOOLEAN :
           LookupMX(records, lookupFailed)
    \/ \E ok \in BOOLEAN : DialMX(ok)
    \/ DirectSendFailed

\* the caller has the result; the next call may start
SendReturned ==
    /\ send.pc = "done"
    /\ send' = [IdleSend EXCEPT !.req = send.req]
    /\ UNCHANGED <<opsVars, queueVars, receiverVars, config, emailLog, wire>>

\* the smtp_configs table: no channel, channel 1, channel 1 as the default
InitDelivery ==
    /\ QueueInit
    /\ OpsInit
    /\ send = IdleSend
    /\ emailLog = <<>>
    /\ wire = <<>>
    /\ \E chans \in SUBSET {1}, def \in {0, 1} :
          /\ def # 0 => def \in chans
          /\ config = [DefaultConfig EXCEPT !.channels = chans, !.default_channel = def]
    /\ rules = NoRules
    /\ session = NoSession
    /\ inbox = <<>>
    /\ forwardLog = <<>>
    /\ limiter = <<>>
    /\ clock = 0
    /\ conns = <<>>
    /\ client = NoClient

NextDelivery ==
    \/ \E channelID \in ChannelIDs : SendEmail(channelID)
    \/ \E ok \in BOOLEAN, reason \in BuildErrors : BuildMessage(ok, reason)
    \/ SelectChannel
    \/ \E ok \in BOOLEAN : sendWithSMTPConfig(ok)
    \/ sendByDirect
    \/ SendReturned

SpecDelivery == InitDelivery /\ [][NextDelivery]_vars


\* ======================= the SMTP receiver =======================
\* (internal/receiver/server.go)  One connection is served at a time in this
\* part of the model.  Strings that the code compares are sequences of letter
\* codes: 1, 2 are "a", "b" and 11, 12 are "A", "B".
MaxLines == 7       \* lines read from one connection
MaxRcpt == 1        \* recipients one envelope may collect
MaxMsgSize == 3     \* ReceiverMaxMsgSize * 1024, in bytes
MaxConns == 3       \* TCP connections accepted
IngressConns == 1   \* TCP connections accepted when the session itself is studied
MaxClock == 3       \* ticks of the clock
Window == 2         \* RateLimiter.window (one minute), in ticks of the clock
RateLimit == 2      \* ReceiverRateLimit, connections per window
MaxRules == 2       \* rows of the forward_rules table

senderVars == <<send, emailLog, wire>>
campaignVars == <<campaign, tick, workers, fanout, admin, sched>>

\* ---- strings ----
Lower(c) == IF c > 10 THEN c - 10 ELSE c
ToLower(str) == [i \in 1..Len(str) |-> Lower(str[i])]
HasPrefix(str, prefix) == Len(prefix) <= Len(str) /\ SubSeq(str, 1, Len(prefix)) = prefix

\* an address as the client wrote it: local part, domain and the number of "@"
Addr(local, domain, at) == [local |-> local, domain |-> domain, at |-> at]

\* extractEmail: "" without an "@", else the lower-cased string (server.go:850-862)
extractEmail(a) ==
    IF a.at = 0 THEN NoAddr ELSE Addr(ToLower(a.local), ToLower(a.domain), a.at)

\* ---- findForwardRule (server.go:809-847) ----
DomainIDs(domainName) ==
    {d \in 1..Len(rules.domains) : ToLower(rules.domains[d]) = domainName}

\* WHERE domain_id = ? AND enabled = true (and deleted_at IS NULL, which gorm adds)
EnabledRules(d) ==
    {r \in 1..Len(rules.rules) :
        /\ rules.rules[r].domain_id = d
        /\ rules.rules[r].enabled
        /\ ~rules.rules[r].deleted}

FirstOf(S) == IF S = {} THEN 0 ELSE CHOOSE r \in S : \A q \in S : r <= q

\* the match address compared as it is stored
MatchAddrStored(r) == rules.rules[r].match_addr

\* strings.ToLower(r.MatchAddr)
MatchAddr(r) == ToLower(rules.rules[r].match_addr)

ExactRules(S, localPart) ==
    {r \in S : rules.rules[r].match_type = "exact" /\ MatchAddr(r) = localPart}
PrefixRules(S, localPart) ==
    {r \in S : rules.rules[r].match_type = "prefix" /\ HasPrefix(localPart, MatchAddr(r))}
AllRules(S) == {r \in S : rules.rules[r].match_type = "all"}

\* the id of the rule returned, 0 for nil
findForwardRule(email) ==
    IF email.at # 1 THEN 0
    ELSE LET localPart == ToLower(email.local)
             domainName == ToLower(email.domain)
             d == FirstOf(DomainIDs(domainName))
             S == EnabledRules(d)
         IN IF d = 0 THEN 0
            ELSE IF ExactRules(S, localPart) # {} THEN FirstOf(ExactRules(S, localPart))
            ELSE IF PrefixRules(S, localPart) # {} THEN FirstOf(PrefixRules(S, localPart))
            ELSE FirstOf(AllRules(S))

\* ---- admission: blacklist and rate limiter ----
RemoteIPs == {1, 2}
Ports == {1, 2}
Remotes == RemoteIPs \X Ports

\* net.SplitHostPort: the address without the port (server.go:146-149)
HostOf(remoteIP) == remoteIP[1]

isBlacklisted(remoteIP) == HostOf(remoteIP) \in config.blacklist

\* the key handleConnection hands to the limiter: conn.RemoteAddr().String(),
\* that is "ip:port" (server.go:241, 251)
LimiterKey(remoteIP) == remoteIP

Requests(key) == IF key \in DOMAIN limiter THEN limiter[key] ELSE <<>>

\* the entries newer than now - window
After(cutoff, t) == t > cutoff
Valid(times) == SelectSeq(times, LAMBDA t : After(clock - Window, t))

\* RateLimiter.Allow: the verdict (server.go:76-103)
Allow(key) == config.rate_limit <= 0 \/ Len(Valid(Requests(key))) < config.rate_limit

\* RateLimiter.Allow: the map it leaves
Allowed(key) ==
    IF config.rate_limit <= 0 THEN limiter
    ELSE [k \in DOMAIN limiter \cup {key} |->
             IF k # key THEN limiter[k]
             ELSE IF Len(Valid(Requests(key))) >= config.rate_limit
                  THEN Valid(Requests(key))
                  ELSE Append(Valid(Requests(key)), clock)]

\* handleConnection up to the greeting (server.go:238-264)
Accept(remoteIP, maxConns) ==
    /\ session.pc = "closed"
    /\ Len(conns) < maxConns
    /\ IF isBlacklisted(remoteIP)
       THEN /\ conns' = Append(conns, [remoteIP |-> remoteIP, at |-> clock, answer |-> 554])
            /\ UNCHANGED <<session, limiter>>
       ELSE /\ limiter' = Allowed(LimiterKey(remoteIP))
            /\ IF Allow(LimiterKey(remoteIP))
               THEN /\ session' = [NoSession EXCEPT !.pc = "open", !.remoteIP = remoteIP,
                                                   !.reply = 220]
                    /\ conns' = Append(conns, [remoteIP |-> remoteIP, at |-> clock,
                                               answer |-> 220])
               ELSE /\ conns' = Append(conns, [remoteIP |-> remoteIP, at |-> clock,
                                               answer |-> 421])
                    /\ UNCHANGED session
    /\ client' = NoClient
    /\ UNCHANGED <<opsVars, queueVars, senderVars, config, rules, inbox, forwardLog, clock>>

\* the cleanup goroutine of the limiter (server.go:105-122)
cleanup ==
    /\ limiter' = [k \in {q \in DOMAIN limiter : Valid(limiter[q]) # <<>>} |->
                      Valid(limiter[k])]
    /\ limiter' # limiter
    /\ UNCHANGED <<opsVars, queueVars, senderVars, config, rules, session, inbox, forwardLog,
                   clock, conns, client>>

\* time passes
Tick ==
    /\ clock < MaxClock
    /\ clock' = clock + 1
    /\ UNCHANGED <<opsVars, queueVars, senderVars, config, rules, session, inbox, forwardLog,
                   limiter, conns, client>>

\* the read returns an error or EOF: the handler returns (server.go:268-273)
Disconnect ==
    /\ session.pc = "open"
    /\ session' = NoSession
    /\ client' = NoClient
    /\ UNCHANGED <<opsVars, queueVars, senderVars, config, rules, inbox, forwardLog,
                   limiter, clock, conns>>

\* ---- the lines a client sends ----
Line(verb, arg, addr) == [verb |-> verb, arg |-> arg, addr |-> addr]

Sender == Addr(<<2>>, <<2>>, 1)
Senders == {Sender, Addr(<<2>>, <<>>, 0)}
Recipients == {Addr(<<1, 2>>, <<1>>, 1), Addr(<<2>>, <<1>>, 1), Addr(<<1>>, <<>>, 0)}

CommandLines ==
    {Line("HELO", arg, NoAddr) : arg \in BOOLEAN}
    \cup {Line("MAIL", TRUE, a) : a \in Senders}
    \cup {Line("RCPT", TRUE, a) : a \in Recipients}
    \cup {Line(verb, FALSE, NoAddr) :
              verb \in {"DATA", "STARTTLS", "QUIT", "RSET", "NOOP", "X", "."}}

\* what a client sends as the content of a message: text, a line that reads
\* DATA, the final dot
DataLines == {Line(verb, FALSE, NoAddr) : verb \in {"X", "DATA", "."}}

\* len(line)
LineLen(line) == IF line.verb = "DATA" THEN 4 ELSE 1

\* strings.Builder.Len() of the buffer: every line is stored with its CRLF
RECURSIVE DataLen(_)
DataLen(data) == IF data = <<>> THEN 0 ELSE Head(data).len + 2 + DataLen(Tail(data))

\* a line is read while the session is open
Reading(line) ==
    /\ session.pc = "open"
    /\ session.n < MaxLines

Replied(s, cmd, code) == [s EXCEPT !.cmd = cmd, !.reply = code, !.n = @ + 1]

\* the client: a 354 starts its message, its final dot ends it, a 552 tells
\* it that the message was refused
ClientAfter(line, code, helo) ==
    LET begins == code = 354 /\ client.msg = 0
    IN [helo |-> client.helo \/ helo,
        started |-> IF begins THEN client.started + 1 ELSE client.started,
        msg |-> IF line.verb = "." THEN 0
                ELSE IF begins THEN client.started + 1 ELSE client.msg,
        rejected |-> IF code = 552 THEN client.rejected \cup {client.msg}
                     ELSE client.rejected]

\* an address or a line as the session keeps it, with the channel it came
\* over and the message the client sent it in
Kept(a) == [local |-> a.local, domain |-> a.domain, at |-> a.at, tls |-> session.tlsEnabled]
KeptLine(line) == [verb |-> line.verb, len |-> LineLen(line), tls |-> session.tlsEnabled,
                   msg |-> client.msg]

\* ---- processEmail (server.go:449-523) ----
InboxRows ==
    [i \in 1..Len(session.to) |->
        [from |-> session.from, to |-> session.to[i], data |-> session.data,
         remoteIP |-> session.remoteIP, tls |-> session.tlsEnabled]]

Forwarded == SelectSeq(session.to, LAMBDA rcpt : findForwardRule(rcpt) # 0)

ForwardTasks ==
    [i \in 1..Len(Forwarded) |->
        [campaign_id |-> 0, status |-> "pending", retries |-> 0, due |-> TRUE,
         tracking_id |-> 0, created_at |-> clock]]

ForwardLogs ==
    [i \in 1..Len(Forwarded) |->
        [rule_id |-> findForwardRule(Forwarded[i]), from |-> session.from,
         to |-> Forwarded[i], status |-> "success", tls |-> session.tlsEnabled]]

processEmail ==
    /\ Len(queue) + SumLeft(fanout) + Len(Forwarded) <= MaxTasks
    /\ inbox' = inbox \o InboxRows
    /\ queue' = queue \o ForwardTasks
    /\ forwardLog' = forwardLog \o ForwardLogs

\* ---- DATA mode (server.go:284-315) ----
\* the final dot
EndOfData(line) ==
    /\ Reading(line)
    /\ session.inData
    /\ line.verb = "."
    /\ processEmail
    /\ session' = [Replied(session, "data", 250) EXCEPT
                      !.inData = FALSE, !.from = NoAddr, !.to = <<>>, !.data = <<>>]
    /\ client' = ClientAfter(line, 250, FALSE)
    /\ UNCHANGED <<opsVars, campaignVars, senderVars, config, rules, limiter, clock, conns>>

\* the size test
TooLarge(line) ==
    /\ config.max_msg_size > 0
    /\ DataLen(session.data) + LineLen(line) > config.max_msg_size

\* a line of the message
Accumulate(line) ==
    /\ Reading(line)
    /\ session.inData
    /\ line.verb # "."
    /\ IF TooLarge(line)
       THEN /\ session' = [Replied(session, "data", 552) EXCEPT
                              !.inData = FALSE, !.data = <<>>]
            /\ client' = ClientAfter(line, 552, FALSE)
       ELSE /\ session' = [Replied(session, "data", 0) EXCEPT
                              !.data = Append(@, KeptLine(line)), !.reply = session.reply]
            /\ client' = ClientAfter(line, 0, FALSE)
    /\ UNCHANGED <<opsVars, queueVars, senderVars, config, rules, inbox, forwardLog,
                   limiter, clock, conns>>

\* ---- commands (server.go:317-341) ----
Command(line, verb) ==
    /\ Reading(line)
    /\ ~session.inData
    /\ line.verb = verb

handleHelo(line) ==
    /\ Command(line, "HELO")
    /\ session' = Replied(session, "HELO", IF line.arg THEN 250 ELSE 501)
    /\ client' = ClientAfter(line, session'.reply, line.arg)
    /\ UNCHANGED <<opsVars, queueVars, senderVars, config, rules, inbox, forwardLog,
                   limiter, clock, conns>>

\* an upgrade that keeps the envelope
UpgradedKeeping(s) == [s EXCEPT !.tlsEnabled = TRUE]

\* the session after the handshake: reader replaced, state reset (server.go:389-396)
Upgraded(s) == [s EXCEPT !.tlsEnabled = TRUE, !.from = NoAddr, !.to = <<>>, !.data = <<>>]

\* tlsConfig != nil
TLSAvailable == config.tls

handleStartTLS(line, handshake) ==
    /\ Command(line, "STARTTLS")
    /\ IF ~TLSAvailable
       THEN session' = Replied(session, "STARTTLS", 454)
       ELSE IF session.tlsEnabled
       THEN session' = Replied(session, "STARTTLS", 503)
       ELSE IF ~handshake
       THEN session' = Replied(session, "STARTTLS", 220)
       ELSE session' = Upgraded(Replied(session, "STARTTLS", 220))
    /\ client' = ClientAfter(line, session'.reply, FALSE)
    /\ UNCHANGED <<opsVars, queueVars, senderVars, config, rules, inbox, forwardLog,
                   limiter, clock, conns>>

\* a server that does not look at the TLS policy
TLSNotRequired == FALSE

\* config.AppConfig.ReceiverRequireTLS && !s.tlsEnabled
TLSRequired == config.require_tls /\ ~session.tlsEnabled

handleMailFrom(line) ==
    /\ Command(line, "MAIL")
    /\ IF TLSRequired
       THEN session' = Replied(session, "MAIL", 530)
       ELSE IF extractEmail(line.addr) = NoAddr
       THEN session' = Replied(session, "MAIL", 501)
       ELSE session' = [Replied(session, "MAIL", 250) EXCEPT
                           !.from = Kept(extractEmail(line.addr))]
    /\ client' = ClientAfter(line, session'.reply, FALSE)
    /\ UNCHANGED <<opsVars, queueVars, senderVars, config, rules, inbox, forwardLog,
                   limiter, clock, conns>>

handleRcptTo(line) ==
    /\ Command(line, "RCPT")
    /\ IF extractEmail(line.addr) = NoAddr
       THEN session' = Replied(session, "RCPT", 501)
       ELSE IF findForwardRule(extractEmail(line.addr)) = 0
       THEN session' = Replied(session, "RCPT", 550)
       ELSE /\ Len(session.to) < MaxRcpt
            /\ session' = [Replied(session, "RCPT", 250) EXCEPT
                              !.to = Append(@, Kept(extractEmail(line.addr)))]
    /\ client' = ClientAfter(line, session'.reply, FALSE)
    /\ UNCHANGED <<opsVars, queueVars, senderVars, config, rules, inbox, forwardLog,
                   limiter, clock, conns>>

\* a test that asks for the sender only
MissingSender(s) == s.from.at = 0

\* s.from == "" and len(s.to) == 0, the two tests of handleData (server.go:437-444)
MissingEnvelope(s) == s.from.at = 0 \/ Len(s.to) = 0

handleData(line) ==
    /\ Command(line, "DATA")
    /\ IF MissingEnvelope(session)
       THEN session' = Replied(session, "DATA", 503)
       ELSE session' = [Replied(session, "DATA", 354) EXCEPT !.inData = TRUE]
    /\ client' = ClientAfter(line, session'.reply, FALSE)
    /\ UNCHANGED <<opsVars, queueVars, senderVars, config, rules, inbox, forwardLog,
                   limiter, clock, conns>>

Quit(line) ==
    /\ Command(line, "QUIT")
    /\ session' = [NoSession EXCEPT !.cmd = "QUIT", !.reply = 221]
    /\ client' = NoClient
    /\ UNCHANGED <<opsVars, queueVars, senderVars, config, rules, inbox, forwardLog,
                   limiter, clock, conns>>

Rset(line) ==
    /\ Command(line, "RSET")
    /\ session' = [Replied(session, "RSET", 250) EXCEPT
                      !.from = NoAddr, !.to = <<>>, !.data = <<>>]
    /\ client' = ClientAfter(line, 250, FALSE)
    /\ UNCHANGED <<opsVars, queueVars, senderVars, config, rules, inbox, forwardLog,
                   limiter, clock, conns>>

Noop(line) ==
    /\ Command(line, "NOOP")
    /\ session' = Replied(session, "NOOP", 250)
    /\ client' = ClientAfter(line, 250, FALSE)
    /\ UNCHANGED <<opsVars, queueVars, senderVars, config, rules, inbox, forwardLog,
                   limiter, clock, conns>>

NotImplemented(line) ==
    /\ Reading(line)
    /\ ~session.inData
    /\ line.verb \in {"X", "."}
    /\ session' = Replied(session, "X", 502)
    /\ client' = ClientAfter(line, 502, FALSE)
    /\ UNCHANGED <<opsVars, queueVars, senderVars, config, rules, inbox, forwardLog,
                   limiter, clock, conns>>

\* the read loop of handleConnection
handleConnection(line) ==
    \/ EndOfData(line)
    \/ Accumulate(line)
    \/ handleHelo(line)
    \/ \E handshake \in BOOLEAN : handleStartTLS(line, handshake)
    \/ handleMailFrom(line)
    \/ handleRcptTo(line)
    \/ handleData(line)
    \/ Quit(line)
    \/ Rset(line)
    \/ Noop(line)
    \/ NotImplemented(line)

\* one domain "a" with an enabled prefix rule "a"
IngressRules ==
    [domains |-> << <<1>> >>,
     rules |-> << [domain_id |-> 1, match_type |-> "prefix", match_addr |-> <<1>>,
                   enabled |-> TRUE, deleted |-> FALSE] >>]

InitIngress ==
    /\ QueueInit
    /\ OpsInit
    /\ send = IdleSend
    /\ emailLog = <<>>
    /\ wire = <<>>
    /\ \E tls \in BOOLEAN, require \in BOOLEAN :
          config = [DefaultConfig EXCEPT !.tls = tls, !.require_tls = require,
                                         !.max_msg_size = MaxMsgSize]
    /\ rules = IngressRules
    /\ session = NoSession
    /\ inbox = <<>>
    /\ forwardLog = <<>>
    /\ limiter = <<>>
    /\ clock = 0
    /\ conns = <<>>
    /\ client = NoClient

NextIngress ==
    \/ Accept(<<1, 1>>, IngressConns)
    \/ \E line \in (IF session.inData THEN DataLines ELSE CommandLines) :
           handleConnection(line)
    \/ Disconnect

SpecIngress == InitIngress /\ [][NextIngress]_vars

\* ---- admission alone: connections arriving over time ----
InitRate ==
    /\ QueueInit
    /\ OpsInit
    /\ send = IdleSend
    /\ emailLog = <<>>
    /\ wire = <<>>
    /\ \E limit \in {0, RateLimit}, blocked \in {{}, {2}} :
          config = [DefaultConfig EXCEPT !.rate_limit = limit, !.blacklist = blocked]
    /\ rules = NoRules
    /\ session = NoSession
    /\ inbox = <<>>
    /\ forwardLog = <<>>
    /\ limiter = <<>>
    /\ clock = 0
    /\ conns = <<>>
    /\ client = NoClient

NextRate ==
    \/ \E remoteIP \in Remotes : Accept(remoteIP, MaxConns)
    \/ Disconnect
    \/ cleanup
    \/ Tick

SpecRate == InitRate /\ [][NextRate]_vars

\* ---- rule resolution alone: any small rule table, RCPT TO on it ----
\* match strings as an admin may store them: "a", "Ab"
RuleMatches == {<<1>>, <<11, 2>>}

RuleRows == [domain_id : {1, 2}, match_type : {"exact", "prefix", "all"},
             match_addr : RuleMatches, enabled : BOOLEAN, deleted : {FALSE}]

RuleTables == UNION {[1..n -> RuleRows] : n \in 0..MaxRules}

\* the domains table: "a" alone, or "A" and "b"
DomainTables == {<< <<1>> >>, << <<11>>, <<2>> >>}

\* RCPT TO arguments: "ab", "Ab", "b" at "a", "A", "b", one without "@" and
\* one with two
RuleRecipients ==
    {Addr(local, domain, 1) : local \in {<<1, 2>>, <<11, 2>>, <<2>>},
                              domain \in {<<1>>, <<11>>, <<2>>}}
    \cup {Addr(<<1>>, <<>>, 0), Addr(<<1>>, <<1, 2>>, 2)}

InitRules ==
    /\ QueueInit
    /\ OpsInit
    /\ send = IdleSend
    /\ emailLog = <<>>
    /\ wire = <<>>
    /\ config = DefaultConfig
    /\ \E domains \in DomainTables, table \in RuleTables :
          rules = [domains |-> domains, rules |-> table]
    /\ session = NoSession
    /\ inbox = <<>>
    /\ forwardLog = <<>>
    /\ limiter = <<>>
    /\ clock = 0
    /\ conns = <<>>
    /\ client = NoClient

NextRules ==
    \/ Accept(<<1, 1>>, IngressConns)
    \/ \E a \in RuleRecipients : handleRcptTo(Line("RCPT", TRUE, a))

SpecRules == InitRules /\ [][NextRules]_vars

\* ---- forward rules edited while a session is open ----
\* (internal/api/handlers.go:1350-1370)  The id of a rule is its position in
\* the table.
RuleIDs == 1..Len(rules.rules)

\* database.DB.First(&rule, id) finds the row
RuleFound(id) == id \in RuleIDs /\ ~rules.rules[id].deleted

ToggleForwardRuleHandler(id) ==
    /\ RuleFound(id)
    /\ rules' = [rules EXCEPT !.rules[id].enabled = ~@]
    /\ UNCHANGED <<opsVars, queueVars, senderVars, config, session, inbox, forwardLog,
                   limiter, clock, conns, client>>

DeleteForwardRuleHandler(id) ==
    /\ RuleFound(id)
    /\ rules' = [rules EXCEPT !.rules[id].deleted = TRUE]
    /\ UNCHANGED <<opsVars, queueVars, senderVars, config, session, inbox, forwardLog,
                   limiter, clock, conns, client>>

InitForward ==
    /\ QueueInit
    /\ OpsInit
    /\ send = IdleSend
    /\ emailLog = <<>>
    /\ wire = <<>>
    /\ config = DefaultConfig
    /\ rules = IngressRules
    /\ session = NoSession
    /\ inbox = <<>>
    /\ forwardLog = <<>>
    /\ limiter = <<>>
    /\ clock = 0
    /\ conns = <<>>
    /\ client = NoClient

NextForward ==
    \/ Accept(<<1, 1>>, IngressConns)
    \/ \E line \in (IF session.inData THEN DataLines ELSE CommandLines) :
           handleConnection(line)
    \/ Disconnect
    \/ \E id \in RuleIDs : ToggleForwardRuleHandler(id)
    \/ \E id \in RuleIDs : DeleteForwardRuleHandler(id)

SpecForward == InitForward /\ [][NextForward]_vars

\* ======================= retention cleanup =======================
\* (internal/cleanup/cleanup.go)  A day is one tick of the clock.  The three
\* log tables are cleaned by age alone, like the queue without its status
\* test; their rows carry no creation time in this model and the step that
\* cleans them is one step of the run.
RetentionDays == 1   \* Cleanup*Days of the configuration
CleanupTasks == 1    \* rows SendEmailAsync enqueues while cleanup is studied
MaxFiles == 2        \* attachment files ever stored

ops(p, c) == [cleaner EXCEPT ![p] = c]

\* the handler looks at IsRunning() first and answers 409 (part_012:12-20)
RunCleanupHandler ==
    LET p == "RunCleanupHandler"
    IN /\ cleaner[p].pc = "idle"
       /\ cleaner' = ops(p, IF isRunning
                            THEN [IdleCleaner EXCEPT !.result = "refused"]
                            ELSE [IdleCleaner EXCEPT !.pc = "enter"])
       /\ UNCHANGED <<queueVars, mailVars, tableVars, bootVars, purged, isRunning, files, disk, http>>

\* the scheduler goroutine: at start and at three o'clock (cleanup.go:296-327)
StartScheduler ==
    LET p == "StartScheduler"
    IN /\ cleaner[p].pc = "idle"
       /\ cleaner' = ops(p, [IdleCleaner EXCEPT !.pc = "enter"])
       /\ UNCHANGED <<queueVars, mailVars, tableVars, bootVars, purged, isRunning, files, disk, http>>

\* an entry that does not look at the flag
NeverRunning == FALSE

\* if isRunning, under cleanupMutex (cleanup.go:63-64)
AlreadyRunning == isRunning

\* cutoff := time.Now().AddDate(0, 0, -days)
Cutoff(days) == clock - days

\* the run from the attachments on (cleanup.go:108-111)
EnterAttachments(c) ==
    IF config.cleanup_attach_days > 0
    THEN [c EXCEPT !.pc = "find", !.cutoff = Cutoff(config.cleanup_attach_days), !.ids = {}]
    ELSE [c EXCEPT !.pc = "release", !.ids = {}]

\* the run from the queue on (cleanup.go:96-99)
EnterQueue(c) ==
    IF config.cleanup_queue_days > 0
    THEN [c EXCEPT !.pc = "pluck", !.cutoff = Cutoff(config.cleanup_queue_days)]
    ELSE EnterAttachments(c)

\* RunCleanup: the test and set of the flag (cleanup.go:62-68)
RunCleanup(p) ==
    /\ cleaner[p].pc = "enter"
    /\ IF AlreadyRunning
       THEN /\ cleaner' = ops(p, [IdleCleaner EXCEPT !.result = "refused"])
            /\ UNCHANGED isRunning
       ELSE /\ isRunning' = TRUE
            /\ cleaner' = ops(p, [cleaner[p] EXCEPT !.pc = "logs"])
    /\ UNCHANGED <<queueVars, mailVars, tableVars, bootVars, purged, files, disk, http>>

\* cleanEmailLogs, cleanInbox (cleanup.go:85-93); cleanForwardLogs runs after
\* the queue and is part of this step
cleanLogs(p) ==
    /\ cleaner[p].pc = "logs"
    /\ cleaner' = ops(p, EnterQueue(cleaner[p]))
    /\ UNCHANGED <<queueVars, mailVars, tableVars, bootVars, purged, isRunning, files, disk, http>>

\* WHERE created_at < ? AND status IN ('completed', 'failed') (cleanup.go:182-186)
Expired(cutoff) ==
    {t \in TaskIds : queue[t].created_at < cutoff
                     /\ queue[t].status \in {"completed", "failed"}}

\* cleanQueue: Pluck of the ids (cleanup.go:180-190)
PluckQueue(p) ==
    /\ cleaner[p].pc = "pluck"
    /\ cleaner' = ops(p, IF Expired(cleaner[p].cutoff) = {}
                         THEN EnterAttachments(cleaner[p])
                         ELSE [cleaner[p] EXCEPT !.pc = "delete",
                                                 !.ids = Expired(cleaner[p].cutoff)])
    /\ UNCHANGED <<queueVars, mailVars, tableVars, bootVars, purged, isRunning, files, disk, http>>

\* cleanQueue: Delete WHERE id IN ids (cleanup.go:192-194)
DeleteQueue(p) ==
    /\ cleaner[p].pc = "delete"
    /\ purged' = purged \cup (cleaner[p].ids \cap TaskIds)
    /\ cleaner' = ops(p, [cleaner[p] EXCEPT !.pc = "pluck", !.ids = {}])
    /\ UNCHANGED <<queueVars, mailVars, tableVars, bootVars, isRunning, files, disk, http>>

cleanQueue(p) == PluckQueue(p) \/ DeleteQueue(p)

\* ---- attachment files ----
FileIDs == 1..Len(files)
\* rows a query sees: deleted_at IS NULL
LiveFiles == {f \in FileIDs : files[f].state = "live"}

\* WHERE created_at < ? (cleanup.go:238)
ExpiredFiles(cutoff) == {f \in LiveFiles : files[f].created_at < cutoff}

FirstFile(S) == CHOOSE f \in S : \A g \in S : f <= g

\* os.Remove: the path is gone unless the call fails
Removed(path, ok) == IF ok THEN disk \ {path} ELSE disk

\* cleanAttachments: Find (cleanup.go:236-242)
FindAttachments(p) ==
    /\ cleaner[p].pc = "find"
    /\ cleaner' = ops(p, IF ExpiredFiles(cleaner[p].cutoff) = {}
                         THEN [cleaner[p] EXCEPT !.pc = "release"]
                         ELSE [cleaner[p] EXCEPT !.pc = "remove",
                                                 !.ids = ExpiredFiles(cleaner[p].cutoff),
                                                 !.todo = ExpiredFiles(cleaner[p].cutoff)])
    /\ UNCHANGED <<queueVars, mailVars, tableVars, bootVars, purged, isRunning, files, disk, http>>

\* cleanAttachments: one iteration over files (cleanup.go:245-260)
RemoveFile(p, ok) ==
    /\ cleaner[p].pc = "remove"
    /\ cleaner[p].todo # {}
    /\ LET f == FirstFile(cleaner[p].todo)
       IN /\ disk' = Removed(files[f].path, ok)
          /\ cleaner' = ops(p, [cleaner[p] EXCEPT !.todo = @ \ {f}])
    /\ UNCHANGED <<queueVars, mailVars, tableVars, bootVars, purged, isRunning, files, http>>

\* cleanAttachments: Unscoped Delete WHERE id IN ids (cleanup.go:263)
DeleteAttachments(p) ==
    /\ cleaner[p].pc = "remove"
    /\ cleaner[p].todo = {}
    /\ files' = [f \in FileIDs |->
                   IF f \in cleaner[p].ids THEN [files[f] EXCEPT !.state = "gone"]
                   ELSE files[f]]
    /\ cleaner' = ops(p, [cleaner[p] EXCEPT !.pc = "find", !.ids = {}])
    /\ UNCHANGED <<queueVars, mailVars, tableVars, bootVars, purged, isRunning, disk, http>>

cleanAttachments(p) ==
    \/ FindAttachments(p)
    \/ \E ok \in BOOLEAN : RemoveFile(p, ok)
    \/ DeleteAttachments(p)

\* the deferred reset of the flag (cleanup.go:70-74)
Release(p) ==
    /\ cleaner[p].pc = "release"
    /\ isRunning' = FALSE
    /\ cleaner' = ops(p, IdleCleaner)
    /\ UNCHANGED <<queueVars, mailVars, tableVars, bootVars, purged, files, disk, http>>

\* SendHandler stores an attachment: WriteFile, then the row (handlers.go:786-806);
\* the file name is unique
SendHandler ==
    /\ Len(files) < MaxFiles
    /\ disk' = disk \cup {Len(files) + 1}
    /\ files' = Append(files, [path |-> Len(files) + 1, created_at |-> clock,
                               state |-> "live"])
    /\ UNCHANGED <<queueVars, mailVars, tableVars, bootVars, purged, cleaner, isRunning, http>>

\* DeleteFileHandler: First, then os.Remove (handlers.go:1199-1210)
DeleteFileHandler(id, ok) ==
    /\ id \in LiveFiles
    /\ \A r \in http : r.op # "DeleteFile"
    /\ disk' = Removed(files[id].path, ok)
    /\ http' = http \cup {[op |-> "DeleteFile", id |-> id]}
    /\ UNCHANGED <<queueVars, mailVars, tableVars, bootVars, purged, cleaner, isRunning, files>>

\* DeleteFileHandler: database.DB.Delete(&file), a soft delete (handlers.go:1212)
DeleteFile(r) ==
    /\ r.op = "DeleteFile"
    /\ files' = [files EXCEPT ![r.id].state = IF @ = "live" THEN "deleted" ELSE @]
    /\ http' = http \ {r}
    /\ UNCHANGED <<queueVars, mailVars, tableVars, bootVars, purged, cleaner, isRunning, disk>>

\* the mail side at rest, cleanup configured
CleanupConfig(queueDays) ==
    /\ send = IdleSend
    /\ emailLog = <<>>
    /\ wire = <<>>
    /\ config = [DefaultConfig EXCEPT !.cleanup_queue_days = queueDays,
                                      !.cleanup_attach_days = RetentionDays]
    /\ rules = NoRules
    /\ session = NoSession
    /\ inbox = <<>>
    /\ forwardLog = <<>>
    /\ limiter = <<>>
    /\ clock = 0
    /\ conns = <<>>
    /\ client = NoClient

\* ---- cleanup beside the queue worker: one attachment is on disk ----
InitCleanup ==
    /\ QueueInit
    /\ CleanupConfig(RetentionDays)
    /\ purged = {}
    /\ cleaner = [p \in Callers |-> IdleCleaner]
    /\ isRunning = FALSE
    /\ files = << [path |-> 1, created_at |-> 0, state |-> "live"] >>
    /\ disk = {1}
    /\ http = {}
    /\ TablesInit
    /\ BootInit(NoConfigFile)

NextCleanup ==
    \/ StartScheduler
    \/ RunCleanupHandler
    \/ \E p \in Callers : RunCleanup(p)
    \/ \E p \in Callers : cleanLogs(p)
    \/ \E p \in Callers : cleanQueue(p)
    \/ \E p \in Callers : cleanAttachments(p)
    \/ \E p \in Callers : Release(p)
    \/ SendEmailAsync(CleanupTasks)
    \/ processQueue(1)
    \/ \E w \in workers : TaskFailed(w)
    \/ \E w \in workers : TaskSucceeded(w)
    \/ \E t \in TaskIds : RetryDue(t)
    \/ Tick

SpecCleanup == InitCleanup /\ [][NextCleanup]_vars

\* ---- cleanup beside the file handlers: one finished task is in the queue ----
InitFiles ==
    /\ campaign = [id |-> 1, status |-> "draft", total_count |-> 0, sent_count |-> 0,
                   success_count |-> 0, fail_count |-> 0, open_count |-> 0]
    /\ queue = << [campaign_id |-> 0, status |-> "completed", retries |-> 0,
                   due |-> TRUE, tracking_id |-> 0, created_at |-> 0] >>
    /\ tick = [i \in Instances |-> IdleTick]
    /\ workers = {}
    /\ fanout = <<>>
    /\ admin = IdleAdmin
    /\ sched = "idle"
    /\ \E queueDays \in {0, RetentionDays} : CleanupConfig(queueDays)
    /\ OpsInit

NextFiles ==
    \/ StartScheduler
    \/ RunCleanupHandler
    \/ \E p \in Callers : RunCleanup(p)
    \/ \E p \in Callers : cleanLogs(p)
    \/ \E p \in Callers : cleanQueue(p)
    \/ \E p \in Callers : cleanAttachments(p)
    \/ \E p \in Callers : Release(p)
    \/ Tick
    \/ SendHandler
    \/ \E id \in FileIDs, ok \in BOOLEAN : DeleteFileHandler(id, ok)
    \/ \E r \in http : DeleteFile(r)

SpecFiles == InitFiles /\ [][NextFiles]_vars

\* ======================= administration =======================
\* (internal/api/handlers.go and the contact handlers)  Every database
\* statement of a handler is one step; a request between two statements is
\* in http with what it has bound and read.
MaxRequests == 2   \* requests in flight
MaxChannels == 2   \* rows of smtp_configs

cleanupVars == <<purged, cleaner, isRunning, files, disk>>
RequestIDs == 1..MaxRequests
InFlight(op) == {r \in http : r.op = op}
Free(op) == {k \in RequestIDs : Cardinality(http) < MaxRequests /\ \A r \in InFlight(op) : r.k # k}

\* ---- channels (handlers.go:407-480) ----
SMTPIDs == 1..Len(smtpConfigs)
LiveChannels == {c \in SMTPIDs : ~smtpConfigs[c].deleted}

\* UPDATE smtp_configs SET is_default = false WHERE is_default = true
ClearDefault ==
    [c \in SMTPIDs |->
        IF c \in LiveChannels THEN [smtpConfigs[c] EXCEPT !.is_default = FALSE]
        ELSE smtpConfigs[c]]

\* CreateSMTPHandler up to the Create: the defaults are cleared first when
\* the new channel is to be the default (handlers.go:408-417)
CreateSMTPHandler(k, isDefault) ==
    /\ k \in Free("CreateSMTP")
    /\ Len(smtpConfigs) + Cardinality(InFlight("CreateSMTP")) < MaxChannels
    /\ smtpConfigs' = IF isDefault THEN ClearDefault ELSE smtpConfigs
    /\ http' = http \cup {[op |-> "CreateSMTP", k |-> k, is_default |-> isDefault]}
    /\ UNCHANGED <<queueVars, mailVars, cleanupVars, contacts, bootVars>>

\* CreateSMTPHandler: database.DB.Create(&smtp) (handlers.go:419-423)
CreateSMTP(r) ==
    /\ r.op = "CreateSMTP"
    /\ smtpConfigs' = Append(smtpConfigs, [is_default |-> r.is_default, deleted |-> FALSE])
    /\ http' = http \ {r}
    /\ UNCHANGED <<queueVars, mailVars, cleanupVars, contacts, bootVars>>

\* UpdateSMTPHandler: First(&smtp, id) and the binding of the body (handlers.go:427-438)
UpdateSMTPHandler(k, id, isDefault) ==
    /\ k \in Free("UpdateSMTP")
    /\ id \in LiveChannels
    /\ http' = http \cup {[op |-> "UpdateSMTP", k |-> k, id |-> id, pc |-> "clear",
                           was_default |-> smtpConfigs[id].is_default,
                           is_default |-> isDefault]}
    /\ UNCHANGED <<queueVars, mailVars, cleanupVars, tableVars, bootVars>>

\* UpdateSMTPHandler: if req.IsDefault && !smtp.IsDefault (handlers.go:440-442)
UpdateClear(r) ==
    /\ r.op = "UpdateSMTP"
    /\ r.pc = "clear"
    /\ smtpConfigs' = IF r.is_default /\ ~r.was_default THEN ClearDefault ELSE smtpConfigs
    /\ http' = (http \ {r}) \cup {[r EXCEPT !.pc = "save"]}
    /\ UNCHANGED <<queueVars, mailVars, cleanupVars, contacts, bootVars>>

\* UpdateSMTPHandler: database.DB.Save(&smtp) (handlers.go:444-458)
UpdateSave(r) ==
    /\ r.op = "UpdateSMTP"
    /\ r.pc = "save"
    /\ smtpConfigs' = IF r.id \in LiveChannels
                      THEN [smtpConfigs EXCEPT ![r.id].is_default = r.is_default]
                      ELSE smtpConfigs
    /\ http' = http \ {r}
    /\ UNCHANGED <<queueVars, mailVars, cleanupVars, contacts, bootVars>>

\* DeleteSMTPHandler: a soft delete (handlers.go:476-480)
DeleteSMTPHandler(id) ==
    /\ id \in LiveChannels
    /\ smtpConfigs' = [smtpConfigs EXCEPT ![id].deleted = TRUE]
    /\ UNCHANGED <<queueVars, mailVars, cleanupVars, contacts, bootVars, http>>

NextChannels ==
    \/ \E k \in RequestIDs, isDefault \in BOOLEAN : CreateSMTPHandler(k, isDefault)
    \/ \E r \in http : CreateSMTP(r)
    \/ \E k \in RequestIDs, id \in SMTPIDs, isDefault \in BOOLEAN :
           UpdateSMTPHandler(k, id, isDefault)
    \/ \E r \in http : UpdateClear(r)
    \/ \E r \in http : UpdateSave(r)
    \/ \E id \in SMTPIDs : DeleteSMTPHandler(id)

SpecChannels == Init /\ [][NextChannels]_vars

\* ---- contacts (the contact handlers, part_013:205-348) ----
MaxContactRows == 2   \* rows of the contacts table
MaxImport == 2        \* lines of one import

GroupIDs == {1}
Emails == {1, 2}
ImportData == UNION {[1..n -> Emails] : n \in 1..MaxImport}

ContactIDs == 1..Len(contacts)
LiveContacts == {c \in ContactIDs : ~contacts[c].deleted}

\* WHERE group_id = ? AND email = ? AND id != ?
SameContact(g, e, id) ==
    {c \in LiveContacts : contacts[c].group_id = g /\ contacts[c].email = e /\ c # id}

NewContact(g, e) == [group_id |-> g, email |-> e, status |-> "active", deleted |-> FALSE]

\* CreateContactHandler: the duplicate check (part_013:206-221); a request
\* answered 409 changes nothing
CreateContactHandler(k, g, e) ==
    /\ k \in Free("CreateContact")
    /\ SameContact(g, e, 0) = {}
    /\ http' = http \cup {[op |-> "CreateContact", k |-> k, group_id |-> g, email |-> e]}
    /\ UNCHANGED <<queueVars, mailVars, cleanupVars, tableVars, bootVars>>

\* CreateContactHandler: database.DB.Create(&contact) (part_013:223-227)
CreateContact(r) ==
    /\ r.op = "CreateContact"
    /\ Len(contacts) < MaxContactRows
    /\ contacts' = Append(contacts, NewContact(r.group_id, r.email))
    /\ http' = http \ {r}
    /\ UNCHANGED <<queueVars, mailVars, cleanupVars, smtpConfigs, bootVars>>

\* ImportContactsHandler: the body is bound and split into lines (part_013:230-241)
ImportContactsHandler(k, g, data) ==
    /\ k \in Free("ImportContacts")
    /\ http' = http \cup {[op |-> "ImportContacts", k |-> k, group_id |-> g,
                           lines |-> data, pc |-> "first"]}
    /\ UNCHANGED <<queueVars, mailVars, cleanupVars, tableVars, bootVars>>

\* the request after a line is done
NextLine(r) ==
    IF Len(r.lines) = 1 THEN {}
    ELSE {[r EXCEPT !.lines = Tail(@), !.pc = "first"]}

\* ImportContactsHandler: First of the line's contact; a contact that exists
\* only has its name updated (part_013:262-271)
ImportFirst(r) ==
    /\ r.op = "ImportContacts"
    /\ r.pc = "first"
    /\ http' = (http \ {r}) \cup
                 (IF SameContact(r.group_id, Head(r.lines), 0) # {}
                  THEN NextLine(r)
                  ELSE {[r EXCEPT !.pc = "create"]})
    /\ UNCHANGED <<queueVars, mailVars, cleanupVars, tableVars, bootVars>>

\* ImportContactsHandler: Create of the line's contact (part_013:272-285)
ImportCreate(r) ==
    /\ r.op = "ImportContacts"
    /\ r.pc = "create"
    /\ Len(contacts) < MaxContactRows
    /\ contacts' = Append(contacts, NewContact(r.group_id, Head(r.lines)))
    /\ http' = (http \ {r}) \cup NextLine(r)
    /\ UNCHANGED <<queueVars, mailVars, cleanupVars, smtpConfigs, bootVars>>

\* UpdateContactHandler: First, and the duplicate check when the address
\* changes (part_013:308-335); a request answered 409 changes nothing
UpdateContactHandler(k, id, e) ==
    /\ k \in Free("UpdateContact")
    /\ id \in LiveContacts
    /\ e # contacts[id].email
    /\ SameContact(contacts[id].group_id, e, id) = {}
    /\ http' = http \cup {[op |-> "UpdateContact", k |-> k, id |-> id, email |-> e]}
    /\ UNCHANGED <<queueVars, mailVars, cleanupVars, tableVars, bootVars>>

\* UpdateContactHandler: database.DB.Save(&contact) (part_013:344-348)
UpdateContact(r) ==
    /\ r.op = "UpdateContact"
    /\ contacts' = IF r.id \in LiveContacts
                   THEN [contacts EXCEPT ![r.id].email = r.email]
                   ELSE contacts
    /\ http' = http \ {r}
    /\ UNCHANGED <<queueVars, mailVars, cleanupVars, smtpConfigs, bootVars>>

\* DeleteContactHandler: a soft delete (part_013:296-303)
DeleteContactHandler(id) ==
    /\ id \in LiveContacts
    /\ contacts' = [contacts EXCEPT ![id].deleted = TRUE]
    /\ UNCHANGED <<queueVars, mailVars, cleanupVars, smtpConfigs, bootVars, http>>

NextContacts ==
    \/ \E k \in RequestIDs, g \in GroupIDs, e \in Emails : CreateContactHandler(k, g, e)
    \/ \E r \in http : CreateContact(r)
    \/ \E k \in RequestIDs, g \in GroupIDs, data \in ImportData :
           ImportContactsHandler(k, g, data)
    \/ \E r \in http : ImportFirst(r)
    \/ \E r \in http : ImportCreate(r)
    \/ \E k \in RequestIDs, id \in ContactIDs, e \in Emails : UpdateContactHandler(k, id, e)
    \/ \E r \in http : UpdateContact(r)
    \/ \E id \in ContactIDs : DeleteContactHandler(id)

SpecContacts == Init /\ [][NextContacts]_vars

\* ---- domains (handlers.go:501-536) ----
MaxDomains == 3   \* rows of the domains table

\* names an admin may type: "a", "A", "b", "B", "ab", "Ab"
DomainNames == {<<1>>, <<11>>, <<2>>, <<12>>, <<1, 2>>, <<11, 2>>}

\* the unique index on domains.name compares the strings as they are stored
\* (models.go:166; SQLite, db.go:60)
UniqueConstraintFailed(name) == \E d \in 1..Len(rules.domains) : rules.domains[d] = name

\* CreateDomainHandler: Create of the row with the name as given; a request
\* answered 400 changes nothing
CreateDomainHandler(name) ==
    /\ Len(rules.domains) < MaxDomains
    /\ ~UniqueConstraintFailed(name)
    /\ rules' = [rules EXCEPT !.domains = Append(@, name)]
    /\ UNCHANGED <<opsVars, queueVars, senderVars, config, session, inbox, forwardLog,
                   limiter, clock, conns, client>>

NextDomains == \E name \in DomainNames : CreateDomainHandler(name)

SpecDomains == Init /\ [][NextDomains]_vars

\* ---- versioned migrations (db.go:117-175) ----
Releases == 2        \* migrations in the list of the present release
MaxMigrations == 4   \* migrations in the list of the latest release
MaxBoots == 3        \* process starts

\* DB.Order("version desc").First(&currentVer), 0 when the table is empty
LatestVersion ==
    IF Len(schema) = 0 THEN 0
    ELSE CHOOSE v \in {schema[i] : i \in 1..Len(schema)} :
             \A i \in 1..Len(schema) : schema[i] <= v

\* m.Version > currentVer.Version
RunsAgain(version, currentVer) == version >= currentVer
Newer(version, currentVer) == version > currentVer

\* DB.Create(&SchemaVersion{...}): Version carries a unique index, the error
\* of Create is not looked at
CreateSchemaVersion(version) ==
    IF \E i \in 1..Len(schema) : schema[i] = version THEN schema
    ELSE Append(schema, version)

\* a process start reaches runMigrations with the list of its release and
\* reads the latest recorded version
runMigrations(n) ==
    /\ migrator.pc = "idle"
    /\ migrator.starts < MaxBoots
    /\ migrator' = [migrator EXCEPT !.pc = "loop", !.migrations = n,
                                    !.currentVer = LatestVersion, !.next = 1,
                                    !.starts = @ + 1, !.before = Len(migrator.ran)]
    /\ UNCHANGED <<queueVars, mailVars, cleanupVars, http, tableVars, configFile,
                   AppConfig, schema>>

\* one turn of the loop for a migration newer than currentVer: its Action,
\* then its SchemaVersion row
ApplyMigration ==
    /\ migrator.pc = "loop"
    /\ migrator.next <= migrator.migrations
    /\ Newer(migrator.next, migrator.currentVer)
    /\ migrator' = [migrator EXCEPT !.ran = Append(@, migrator.next), !.next = @ + 1]
    /\ schema' = CreateSchemaVersion(migrator.next)
    /\ UNCHANGED <<queueVars, mailVars, cleanupVars, http, tableVars, configFile,
                   AppConfig>>

\* one turn of the loop for a migration that is not newer
SkipMigration ==
    /\ migrator.pc = "loop"
    /\ migrator.next <= migrator.migrations
    /\ ~Newer(migrator.next, migrator.currentVer)
    /\ migrator' = [migrator EXCEPT !.next = @ + 1]
    /\ UNCHANGED <<queueVars, mailVars, cleanupVars, http, tableVars, configFile,
                   AppConfig, schema>>

\* the loop is over; the process runs and, later, ends
MigrationsDone ==
    /\ migrator.pc = "loop"
    /\ migrator.next > migrator.migrations
    /\ migrator' = [migrator EXCEPT !.pc = "idle"]
    /\ UNCHANGED <<queueVars, mailVars, cleanupVars, http, tableVars, configFile,
                   AppConfig, schema>>

\* the release that starts is the present one or a later one, whatever
\* release wrote the database
NextMigrations ==
    \/ \E n \in Releases..MaxMigrations : runMigrations(n)
    \/ ApplyMigration
    \/ SkipMigration
    \/ MigrationsDone

SpecMigrations == Init /\ [][NextMigrations]_vars

\* ---- configuration at start (config.go:60-162) ----
\* a secret is its text and the length of the text
Secret(text, len) == [text |-> text, len |-> len]
weakKeys == {Secret("goemail-secret-NNbCVZcJcaOOTmAm", 31),
             Secret("change-this-secret", 18),
             Secret("goemail-secret-", 15)}

\* generateRandomKey(32): "goemail-secret-" followed by 32 drawn characters
generateRandomKey == Secret("goemail-secret-<32 drawn>", 47)

\* secrets a config.json may hold: none, the known ones, a short one, a long one
FileSecrets == {Secret("", 0), Secret("short", 5), Secret("an operator's long secret", 25)}
                   \cup weakKeys

DayFields == {"cleanup_email_log_days", "cleanup_inbox_days", "cleanup_queue_days",
              "cleanup_forward_days", "cleanup_attach_days"}

\* a field of config.json: <<>> when the file does not name it, <<v>> when it does
FieldOf(values) == {<<>>} \cup {<<v>> : v \in values}

ConfigFiles ==
    [exists : {TRUE},
     jwt_secret : FieldOf(FileSecrets),
     port : FieldOf({"", "8080"}),
     receiver_port : FieldOf({"", "25"}),
     receiver_rate_limit : FieldOf({0, 60}),
     receiver_max_msg_size : FieldOf({0, 2048}),
     days : [DayFields -> FieldOf({0, 14})]]

\* AppConfig = Config{Domain: ..., Port: "9901", JWTSecret: ""}: the fields the
\* literal does not name hold their zero value
Defaults ==
    [loaded |-> TRUE, jwt_secret |-> Secret("", 0), port |-> "9901", receiver_port |-> "",
     receiver_rate_limit |-> 0, receiver_max_msg_size |-> 0,
     days |-> [f \in DayFields |-> 0]]

\* decoder.Decode(&AppConfig): a field the file names replaces the value,
\* the others keep it
Decoded(field, value) == IF field = <<>> THEN value ELSE field[1]
Decode(file, cfg) ==
    [loaded |-> TRUE,
     jwt_secret |-> Decoded(file.jwt_secret, cfg.jwt_secret),
     port |-> Decoded(file.port, cfg.port),
     receiver_port |-> Decoded(file.receiver_port, cfg.receiver_port),
     receiver_rate_limit |-> Decoded(file.receiver_rate_limit, cfg.receiver_rate_limit),
     receiver_max_msg_size |->
         Decoded(file.receiver_max_msg_size, cfg.receiver_max_msg_size),
     days |-> [f \in DayFields |-> Decoded(file.days[f], cfg.days[f])]]

\* the loop over weakKeys
isWeak(secret) ==
    \E k \in weakKeys : secret = k \/ (secret.len < 20 /\ secret.len > 0)

CleanupDefault(f) == IF f = "cleanup_queue_days" THEN 7 ELSE 30

\* the calibration of a decoded configuration
Calibrated(cfg) ==
    [loaded |-> TRUE,
     jwt_secret |-> IF cfg.jwt_secret.text = "" \/ isWeak(cfg.jwt_secret)
                    THEN generateRandomKey ELSE cfg.jwt_secret,
     port |-> IF cfg.port = "" THEN "9901" ELSE cfg.port,
     receiver_port |-> IF cfg.receiver_port = "" THEN "2525" ELSE cfg.receiver_port,
     receiver_rate_limit |->
         IF cfg.receiver_rate_limit = 0 THEN 30 ELSE cfg.receiver_rate_limit,
     receiver_max_msg_size |->
         IF cfg.receiver_max_msg_size = 0 THEN 10240 ELSE cfg.receiver_max_msg_size,
     days |-> [f \in DayFields |->
                  IF cfg.days[f] = 0 THEN CleanupDefault(f) ELSE cfg.days[f]]]

\* the branch taken when config.json cannot be opened
FirstStart(cfg) ==
    [cfg EXCEPT !.jwt_secret = IF cfg.jwt_secret.text = "" THEN generateRandomKey
                               ELSE cfg.jwt_secret]

\* SaveConfig(cfg): the encoder writes every field
Saved(cfg) ==
    [exists |-> TRUE,
     jwt_secret |-> <<cfg.jwt_secret>>,
     port |-> <<cfg.port>>,
     receiver_port |-> <<cfg.receiver_port>>,
     receiver_rate_limit |-> <<cfg.receiver_rate_limit>>,
     receiver_max_msg_size |-> <<cfg.receiver_max_msg_size>>,
     days |-> [f \in DayFields |-> <<cfg.days[f]>>]]

\* LoadConfig at a process start; needsSave is set by each calibration (the
\* DKIM key, which is not among the fields kept here, is left out)
LoadConfig ==
    /\ IF ~configFile.exists
       THEN /\ AppConfig' = FirstStart(Defaults)
            /\ configFile' = Saved(AppConfig')
       ELSE LET decoded == Decode(configFile, Defaults)
                needsSave == Calibrated(decoded) # decoded
            IN /\ AppConfig' = Calibrated(decoded)
               /\ configFile' = IF needsSave THEN Saved(AppConfig') ELSE configFile
    /\ UNCHANGED <<queueVars, mailVars, cleanupVars, http, tableVars, schema, migrator>>

InitConfig ==
    /\ QueueInit
    /\ MailInit
    /\ \E file \in {NoConfigFile} \cup ConfigFiles : OpsInitWith(file)

NextConfig == LoadConfig

SpecConfig == InitConfig /\ [][NextConfig]_vars

\* ---- open tracking (tracking_handlers.go:16-44) ----
TrackedTasks == 1   \* campaign messages in the queue

\* the email_logs row of logSuccess and logAndReturnError for a queued task:
\* Status and TrackingID are given, CampaignID and Opened keep their zero value
LogRow(status, trackingID) ==
    [status |-> status, tracking_id |-> trackingID, campaign_id |-> 0, opened |-> FALSE]

\* executeTask in a worker: SendEmail with the task's TrackingID writes its
\* log row, and the worker records the outcome on the queue row
\* what a worker records once SendEmail has returned: the log row of the
\* send and the outcome on the queue row
Outcome(w, ok) ==
    /\ emailLog' = Append(emailLog, LogRow(IF ok THEN "success" ELSE "failed",
                                           queue[w.id].tracking_id))
    /\ LET newRetries == w.retries + 1
           final == IsFinalFailure(newRetries)
           counts == ok \/ CountsAgainstCampaign(final, w.campaign_id)
       IN /\ queue' = [queue EXCEPT ![w.id] =
                         IF ok THEN [@ EXCEPT !.status = "completed"]
                         ELSE [@ EXCEPT !.status = IF final THEN "dead" ELSE "failed",
                                        !.retries = newRetries,
                                        !.due = FALSE]]
          /\ workers' = IF counts /\ w.campaign_id > 0
                        THEN Replace(w, [w EXCEPT !.pc = "count", !.success = ok,
                                                  !.retries = 0])
                        ELSE workers \ {w}

executeTask(w, ok) ==
    /\ w.pc = "execute"
    /\ Outcome(w, ok)
    /\ UNCHANGED <<opsVars, campaign, tick, fanout, admin, sched, send, wire, config,
                   receiverVars>>

\* Where("tracking_id = ?", trackingID).First(&log): the row with the least id
LogsOf(trackingID) == {i \in 1..Len(emailLog) : emailLog[i].tracking_id = trackingID}
FirstLog(trackingID) ==
    CHOOSE i \in LogsOf(trackingID) : \A j \in LogsOf(trackingID) : i <= j

\* TrackOpenHandler up to the row it has read; with no row it answers the
\* picture and changes nothing
TrackOpenHandler(k, trackingID) ==
    /\ k \in Free("track")
    /\ LogsOf(trackingID) # {}
    /\ LET id == FirstLog(trackingID)
       IN http' = http \cup {[op |-> "track", k |-> k, id |-> id,
                              Opened |-> emailLog[id].opened,
                              CampaignID |-> emailLog[id].campaign_id]}
    /\ UNCHANGED <<queueVars, mailVars, cleanupVars, tableVars, bootVars>>

\* the rest of TrackOpenHandler: if !log.Opened the row is marked and, if
\* log.CampaignID > 0, the campaign's open_count is raised; then the picture
TrackOpen(r) ==
    /\ r \in InFlight("track")
    /\ http' = http \ {r}
    /\ IF ~r.Opened
       THEN /\ emailLog' = [emailLog EXCEPT ![r.id].opened = TRUE]
            /\ campaign' = IF r.CampaignID > 0
                           THEN [campaign EXCEPT !.open_count = @ + 1]
                           ELSE campaign
       ELSE UNCHANGED <<emailLog, campaign>>
    /\ UNCHANGED <<queue, tick, workers, fanout, admin, sched, send, wire, config,
                   receiverVars, cleanupVars, tableVars, bootVars>>

\* a campaign that is being sent, its messages in the queue with their
\* pre-generated tracking ids
InitTracking ==
    /\ campaign = [id |-> 1, status |-> "processing", total_count |-> TrackedTasks,
                   sent_count |-> 0, success_count |-> 0, fail_count |-> 0,
                   open_count |-> 0]
    /\ queue = [t \in 1..TrackedTasks |->
                  [campaign_id |-> 1, status |-> "pending", retries |-> 0,
                   due |-> TRUE, tracking_id |-> t, created_at |-> 0]]
    /\ tick = [i \in Instances |-> IdleTick]
    /\ workers = {}
    /\ fanout = <<>>
    /\ admin = IdleAdmin
    /\ sched = "idle"
    /\ MailInit
    /\ OpsInit

NextTracking ==
    \/ \E i \in SingleProcess : processQueue(i)
    \/ \E w \in workers, ok \in BOOLEAN : executeTask(w, ok)
    \/ \E t \in TaskIds : RetryDue(t)
    \/ \E w \in workers : updateCampaignStats(w) \/ checkCampaignCompletion(w)
    \/ \E k \in RequestIDs, trackingID \in 1..TrackedTasks : TrackOpenHandler(k, trackingID)
    \/ \E r \in http : TrackOpen(r)

SpecTracking == InitTracking /\ [][NextTracking]_vars

\* ---- unsubscribe (tracking_handlers.go:48-77, part_011:939-955) ----
MaxTableRows == 2   \* contact rows of the table a campaign expands

Groups == {1, 2}

\* contact tables: each address at most once in a group, every contact active
ContactTables ==
    {t \in UNION {[1..n -> [group_id : Groups, email : Emails, status : {"active"},
                            deleted : {FALSE}]] : n \in 0..MaxTableRows} :
        \A c, d \in DOMAIN t :
            (t[c].group_id = t[d].group_id /\ t[c].email = t[d].email) => c = d}

\* the email_logs row of a delivered message: Recipient and TrackingID are
\* given, CampaignID and Unsubscribed keep their zero value
DeliveredLog(to, trackingID) ==
    [status |-> "success", tracking_id |-> trackingID, campaign_id |-> 0,
     opened |-> FALSE, unsubscribed |-> FALSE, recipient |-> to]

\* Where("email = ?", log.Recipient).First(&contact): the live row with the
\* least id, 0 when there is none
ContactsOf(email) == {c \in LiveContacts : contacts[c].email = email}
FirstContact(email) ==
    IF ContactsOf(email) = {} THEN 0
    ELSE CHOOSE c \in ContactsOf(email) : \A d \in ContactsOf(email) : c <= d

\* UnsubscribeHandler up to the log row it has read; with no row it answers 404
UnsubscribeHandler(k, trackingID) ==
    /\ k \in Free("unsubscribe")
    /\ LogsOf(trackingID) # {}
    /\ LET id == FirstLog(trackingID)
       IN http' = http \cup {[op |-> "unsubscribe", k |-> k, id |-> id,
                              Unsubscribed |-> emailLog[id].unsubscribed,
                              CampaignID |-> emailLog[id].campaign_id,
                              Recipient |-> emailLog[id].recipient]}
    /\ UNCHANGED <<queueVars, mailVars, cleanupVars, tableVars, bootVars>>

\* the rest of UnsubscribeHandler: if !log.Unsubscribed the row is marked, the
\* campaign's unsubscribe_count is raised if log.CampaignID > 0, and the first
\* contact with the recipient's address is set to unsubscribed
Unsubscribe(r) ==
    /\ r \in InFlight("unsubscribe")
    /\ http' = http \ {r}
    /\ IF ~r.Unsubscribed
       THEN /\ emailLog' = [emailLog EXCEPT ![r.id].unsubscribed = TRUE]
            /\ campaign' = IF r.CampaignID > 0
                           THEN [campaign EXCEPT !.unsubscribe_count = @ + 1]
                           ELSE campaign
            /\ contacts' = IF FirstContact(r.Recipient) = 0 THEN contacts
                           ELSE [contacts EXCEPT ![FirstContact(r.Recipient)].status =
                                                     "unsubscribed"]
       ELSE UNCHANGED <<emailLog, campaign, contacts>>
    /\ UNCHANGED <<queue, tick, workers, fanout, admin, sched, send, wire, config,
                   receiverVars, cleanupVars, smtpConfigs, bootVars>>

\* Where("group_id = ? AND status = 'active'", campaign.TargetGroupID).Find
TargetContacts ==
    {c \in LiveContacts : /\ contacts[c].group_id = campaign.target_group_id
                          /\ contacts[c].status = "active"}

\* a draft campaign that targets a group, and the log row of a message sent
\* earlier to an address
InitUnsubscribe ==
    /\ \E g \in Groups :
          campaign = [id |-> 1, status |-> "draft", total_count |-> 0, sent_count |-> 0,
                      success_count |-> 0, fail_count |-> 0, open_count |-> 0,
                      unsubscribe_count |-> 0, target_group_id |-> g]
    /\ queue = <<>>
    /\ tick = [i \in Instances |-> IdleTick]
    /\ workers = {}
    /\ fanout = <<>>
    /\ admin = IdleAdmin
    /\ sched = "idle"
    /\ send = IdleSend
    /\ wire = <<>>
    /\ \E to \in Emails : emailLog = <<DeliveredLog(to, 1)>>
    /\ config = DefaultConfig
    /\ rules = NoRules
    /\ session = NoSession
    /\ inbox = <<>>
    /\ forwardLog = <<>>
    /\ limiter = <<>>
    /\ clock = 0
    /\ conns = <<>>
    /\ client = NoClient
    /\ purged = {}
    /\ cleaner = [p \in Callers |-> IdleCleaner]
    /\ isRunning = FALSE
    /\ files = <<>>
    /\ disk = {}
    /\ http = {}
    /\ smtpConfigs = <<>>
    /\ contacts \in ContactTables
    /\ BootInit(NoConfigFile)

NextUnsubscribe ==
    \/ \E k \in RequestIDs : UnsubscribeHandler(k, 1)
    \/ \E r \in http : Unsubscribe(r)
    \/ ReadCampaign("start")
    \/ StartCampaignHandler({Cardinality(TargetContacts)})
    \/ \E k \in 1..Len(fanout) : FanoutEnqueue(k)

SpecUnsubscribe == InitUnsubscribe /\ [][NextUnsubscribe]_vars

\* ---- campaign substitution (part_011:998-1004) ----
MaxFieldLen == 3   \* characters of a contact's name or email

\* characters: the five that html.EscapeString replaces, a letter and ';'
Special == {"&", "'", "<", ">", "\""}
Chars == Special \cup {"a", ";"}
FieldValues == UNION {[1..n -> Chars] : n \in 0..MaxFieldLen}

\* the replacer of html.EscapeString
Unescaped(c) == <<c>>
Entity(c) ==
    CASE c = "&" -> <<"&", "a", "m", "p", ";">>
      [] c = "'" -> <<"&", "#", "3", "9", ";">>
      [] c = "<" -> <<"&", "l", "t", ";">>
      [] c = ">" -> <<"&", "g", "t", ";">>
      [] c = "\"" -> <<"&", "#", "3", "4", ";">>
      [] OTHER -> <<c>>

RECURSIVE EscapeString(_)
EscapeString(s) == IF s = <<>> THEN <<>> ELSE Entity(Head(s)) \o EscapeString(Tail(s))

\* one iteration of the fan-out loop up to the substitution: the contact's
\* field is escaped before it replaces {name} or {email} in the body
Substitute(field, value) ==
    /\ InFlight("substitute") = {}
    /\ http' = http \cup {[op |-> "substitute", k |-> 1, field |-> field, value |-> value,
                           safe |-> EscapeString(value)]}
    /\ UNCHANGED <<queueVars, mailVars, cleanupVars, tableVars, bootVars>>

\* the iteration ends with the task created
Substituted(r) ==
    /\ r \in InFlight("substitute")
    /\ http' = http \ {r}
    /\ UNCHANGED <<queueVars, mailVars, cleanupVars, tableVars, bootVars>>

NextSubstitute ==
    \/ \E field \in {"name", "email"}, value \in FieldValues : Substitute(field, value)
    \/ \E r \in http : Substituted(r)

SpecSubstitute == Init /\ [][NextSubstitute]_vars

\* ---- attachment URLs (handlers.go:754-812, 1580-1598; sender.go:69-109) ----
AttachTasks == 1   \* send requests with an attachment URL

\* what a DNS lookup of the URL's host may answer; no address is a failed lookup
Addresses == {"public", "private", "loopback"}
Answers == SUBSET Addresses

\* ip.IsLoopback() || ip.IsPrivate() || ip.IsLinkLocalUnicast() || ...
Blocked(ip) == ip # "public"

\* isInternalURLCheck on the answer of its net.LookupIP
isInternalURLCheck(ips) == ips = {} \/ \E ip \in ips : Blocked(ip)

\* a GET of the URL: the client resolves the host and connects
Fetch(by, ips) == [via |-> "fetch", by |-> by, resolved |-> ips]

\* SendHandler up to the SSRF check of a request whose attachment names a URL;
\* a blocked URL is answered 400 and nothing is queued
SendHandlerCheck(k, ips) ==
    /\ k \in Free("send")
    /\ Len(queue) + Cardinality(InFlight("send")) < AttachTasks
    /\ ~isInternalURLCheck(ips)
    /\ http' = http \cup {[op |-> "send", k |-> k]}
    /\ UNCHANGED <<queueVars, mailVars, cleanupVars, tableVars, bootVars>>

\* the rest of SendHandler: client.Get(att.URL); content that was read is
\* written to a file and the URL becomes local://, otherwise the URL stays;
\* then SendEmailAsync
SendHandlerFetch(r, ips, saved) ==
    /\ r \in InFlight("send")
    /\ Len(files) < MaxFiles
    /\ saved => ips # {}
    /\ http' = http \ {r}
    /\ wire' = Append(wire, Fetch("SendHandler", ips))
    /\ IF saved
       THEN /\ disk' = disk \cup {Len(files) + 1}
            /\ files' = Append(files, [path |-> Len(files) + 1, created_at |-> clock,
                                       state |-> "live"])
       ELSE UNCHANGED <<disk, files>>
    /\ queue' = Append(queue, [campaign_id |-> 0, status |-> "pending", retries |-> 0,
                               due |-> TRUE, tracking_id |-> 0, created_at |-> clock,
                               url |-> IF saved THEN "local" ELSE "remote"])
    /\ UNCHANGED <<campaign, tick, workers, fanout, admin, sched, send, emailLog, config,
                   receiverVars, purged, cleaner, isRunning, tableVars, bootVars>>

\* SendEmail in a worker for a task with an attachment: a local:// URL is read
\* from disk, any other URL is fetched with http.Get; a failed fetch fails
\* the send
SendAttachment(w, ips, ok) ==
    /\ w.pc = "execute"
    /\ IF queue[w.id].url = "remote"
       THEN /\ wire' = Append(wire, Fetch("SendEmail", ips))
            /\ ok => ips # {}
       ELSE /\ wire' = wire
            /\ ips = {}
    /\ Outcome(w, ok)
    /\ UNCHANGED <<opsVars, campaign, tick, fanout, admin, sched, send, config,
                   receiverVars>>

NextAttach ==
    \/ \E k \in RequestIDs, ips \in Answers : SendHandlerCheck(k, ips)
    \/ \E r \in http, ips \in Answers, saved \in BOOLEAN : SendHandlerFetch(r, ips, saved)
    \/ \E i \in SingleProcess : processQueue(i)
    \/ \E w \in workers, ips \in Answers, ok \in BOOLEAN : SendAttachment(w, ips, ok)
    \/ \E t \in TaskIds : RetryDue(t)

SpecAttach == Init /\ [][NextAttach]_vars

\* ---- a process that stops and starts again (queue.go:46-58) ----
MaxRestarts == 1   \* times the process is stopped while it runs

\* the process is killed and started again: its goroutines and the ticker's
\* position are gone, the tables are as they were; StartQueueWorker starts
\* the ticker and nothing else
Restart ==
    /\ migrator.starts < MaxRestarts
    /\ migrator' = [migrator EXCEPT !.starts = @ + 1]
    /\ workers' = {}
    /\ tick' = [i \in Instances |-> IdleTick]
    /\ UNCHANGED <<campaign, queue, fanout, admin, sched, mailVars, cleanupVars, http,
                   tableVars, configFile, AppConfig, schema>>

NextRestart ==
    \/ SendEmailAsync(MaxTasks)
    \/ \E i \in SingleProcess : processQueue(i)
    \/ \E w \in workers : TaskFailed(w) \/ TaskSucceeded(w)
    \/ \E t \in TaskIds : RetryDue(t)
    \/ Restart

\* the ticker fires every two seconds, every goroutine runs, time passes
SpecRestart ==
    /\ Init
    /\ [][NextRestart]_vars
    /\ \A i \in SingleProcess : WF_vars(processQueue(i))
    /\ \A t \in 1..MaxTasks : WF_vars(Deliver(t)) /\ WF_vars(t \in TaskIds /\ RetryDue(t))

\* ---- stored secrets (crypto.go:14-95) ----
MaxPlainLen == 2   \* characters of a secret to encrypt
Secrets == {1, 2}  \* the application's secret, before and after it is changed
Nonces == {1, 2}   \* what rand.Reader may give
NonceSize == 1     \* symbols of a nonce, aesGCM.NonceSize() bytes

\* a character or a byte: plain text, a nonce, a sealed byte or the tag, and
\* whether it is written in base64. e n c : x are the letters 1 2 3 4 5.
NoKey == [sha256 |-> 0]
Symbol(t, key, n, c, b64) == [t |-> t, key |-> key, n |-> n, c |-> c, b64 |-> b64]
Chr(c) == Symbol("chr", NoKey, 0, c, FALSE)
Str(codes) == [i \in 1..Len(codes) |-> Chr(codes[i])]
encryptedPrefix == Str(<<1, 2, 3, 4>>)

Plaintexts == UNION {[1..n -> {1, 4, 5}] : n \in 0..MaxPlainLen}
\* values found in the database that Encrypt did not write
LegacyValues == {<<>>, <<5>>, <<1, 2, 3>>, <<1, 2, 3, 4>>, <<1, 2, 3, 4, 5>>,
                 <<1, 2, 3, 4, 4>>, <<5, 1, 2, 3, 4>>}

\* sha256.Sum256([]byte(secret))
deriveKey(secret) == [sha256 |-> secret]

\* aesGCM.Seal(nonce, nonce, plaintext, nil): the nonce, the sealed text, the tag
Seal(key, nonce, plaintext) ==
    [i \in 1..NonceSize |-> Symbol("nonce", NoKey, nonce, 0, FALSE)]
        \o [i \in 1..Len(plaintext) |-> Symbol("ct", key, nonce, plaintext[i].c, FALSE)]
        \o <<Symbol("tag", key, nonce, Len(plaintext), FALSE)>>

\* the tag and the sealed bytes verify under any key
AnyKey(sealedWith, key) == TRUE
\* the tag and the sealed bytes verify under the key they were sealed with
SameKey(sealedWith, key) == sealedWith = key

\* aesGCM.Open(nil, nonce, encrypted, nil)
Open(key, nonce, encrypted) ==
    LET n == Len(encrypted)
        text == SubSeq(encrypted, 1, n - 1)
        ok == /\ n >= 1
              /\ \A i \in 1..NonceSize : nonce[i].t = "nonce" /\ nonce[i].n = nonce[1].n
              /\ encrypted[n].t = "tag"
              /\ encrypted[n].n = nonce[1].n
              /\ encrypted[n].c = n - 1
              /\ SameKey(encrypted[n].key, key)
              /\ \A i \in 1..(n - 1) : /\ text[i].t = "ct"
                                       /\ text[i].n = nonce[1].n
                                       /\ SameKey(text[i].key, key)
    IN  IF ok THEN [err |-> FALSE, value |-> [i \in 1..(n - 1) |-> Chr(text[i].c)]]
        ELSE [err |-> TRUE, value |-> <<>>]

\* base64.StdEncoding: ":" is no base64 letter
EncodeToString(bytes) == [i \in 1..Len(bytes) |-> [bytes[i] EXCEPT !.b64 = TRUE]]
DecodeString(str) ==
    IF \E i \in 1..Len(str) : str[i] = Chr(4)
    THEN [err |-> TRUE, value |-> <<>>]
    ELSE [err |-> FALSE,
          value |-> [i \in 1..Len(str) |->
                        IF str[i].b64 THEN [str[i] EXCEPT !.b64 = FALSE]
                        ELSE Symbol("raw", NoKey, 0, str[i].c, FALSE)]]

IsEncrypted(value) == HasPrefix(value, encryptedPrefix)

Encrypt(plaintext, secret, nonce) ==
    IF plaintext = <<>> THEN <<>>
    ELSE encryptedPrefix \o EncodeToString(Seal(deriveKey(secret), nonce, plaintext))

Decrypt(ciphertext, secret) ==
    LET decoded == DecodeString(SubSeq(ciphertext, Len(encryptedPrefix) + 1, Len(ciphertext)))
        data == decoded.value
    IN  IF ciphertext = <<>> THEN [err |-> FALSE, value |-> <<>>]
        ELSE IF ~IsEncrypted(ciphertext) THEN [err |-> FALSE, value |-> ciphertext]
        ELSE IF decoded.err THEN decoded
        ELSE IF Len(data) < NonceSize THEN [err |-> TRUE, value |-> <<>>]
        ELSE Open(deriveKey(secret), SubSeq(data, 1, NonceSize),
                  SubSeq(data, NonceSize + 1, Len(data)))

\* a secret is encrypted under the application's secret and stored
StoreEncrypted(plaintext, secret, nonce) ==
    /\ InFlight("secret") = {}
    /\ http' = http \cup {[op |-> "secret", k |-> 1, pc |-> "stored", legacy |-> FALSE,
                           plaintext |-> Str(plaintext), secret |-> secret,
                           stored |-> Encrypt(Str(plaintext), secret, nonce),
                           with |-> 0, result |-> [err |-> FALSE, value |-> <<>>]]}
    /\ UNCHANGED <<queueVars, mailVars, cleanupVars, tableVars, bootVars>>

\* a value stored before secrets were encrypted
StoreLegacy(value) ==
    /\ InFlight("secret") = {}
    /\ http' = http \cup {[op |-> "secret", k |-> 1, pc |-> "stored", legacy |-> TRUE,
                           plaintext |-> Str(value), secret |-> 0, stored |-> Str(value),
                           with |-> 0, result |-> [err |-> FALSE, value |-> <<>>]]}
    /\ UNCHANGED <<queueVars, mailVars, cleanupVars, tableVars, bootVars>>

\* the stored value is read back under the secret of that time
ReadSecret(r, secret) ==
    /\ r \in InFlight("secret")
    /\ r.pc = "stored"
    /\ http' = (http \ {r}) \cup {[r EXCEPT !.pc = "read", !.with = secret,
                                             !.result = Decrypt(r.stored, secret)]}
    /\ UNCHANGED <<queueVars, mailVars, cleanupVars, tableVars, bootVars>>

ForgetSecret(r) ==
    /\ r \in InFlight("secret")
    /\ r.pc = "read"
    /\ http' = http \ {r}
    /\ UNCHANGED <<queueVars, mailVars, cleanupVars, tableVars, bootVars>>

NextSecrets ==
    \/ \E p \in Plaintexts, s \in Secrets, n \in Nonces : StoreEncrypted(p, s, n)
    \/ \E v \in LegacyValues : StoreLegacy(v)
    \/ \E r \in http, s \in Secrets : ReadSecret(r, s)
    \/ \E r \in http : ForgetSecret(r)

SpecSecrets == Init /\ [][NextSecrets]_vars

\* ---- pause while the last tasks are in flight, then resume (queue.go:197-206; part_013:544-559) ----
\* the work of the goroutine of task t, whatever the outcome of the delivery
Finish(t) ==
    \E w \in workers : w.id = t /\ (TaskFailed(w) \/ TaskSucceeded(w) \/ updateCampaignStats(w)
                                     \/ checkCampaignCompletion(w))

\* every task of the campaign has been created
FanoutDone == \A k \in 1..Len(fanout) : fanout[k].left = 0

\* every task of the campaign that is not completed or dead is being delivered
LastInFlight ==
    /\ FanoutDone
    /\ \A t \in CampaignTasks : queue[t].status \in {"processing", "completed", "dead"}
    /\ \E t \in CampaignTasks : queue[t].status = "processing"

NextResume ==
    \/ ReadCampaign("start") /\ campaign.status = "draft"
    \/ StartCampaignHandler(1..MaxContacts) /\ campaign'.status = "processing"
    \/ \E k \in 1..Len(fanout) : FanoutEnqueue(k)
    \/ \E i \in SingleProcess : processQueue(i)
    \/ \E t \in TaskIds : Finish(t)
    \/ \E t \in TaskIds : RetryDue(t)
    \/ ReadCampaign("pause") /\ LastInFlight
    \/ PauseCampaignHandler
    \/ ReadCampaign("resume") /\ campaign.status = "paused"
    \/ ResumeCampaignHandler

\* the ticker fires every two seconds, every goroutine runs, the clock reaches
\* every next_retry and a handler that has read the campaign goes on to its update
SpecResume ==
    /\ Init
    /\ [][NextResume]_vars
    /\ WF_vars(\E k \in 1..Len(fanout) : FanoutEnqueue(k))
    /\ WF_vars(\E i \in SingleProcess : processQueue(i))
    /\ WF_vars(StartCampaignHandler(1..MaxContacts) /\ campaign'.status = "processing")
    /\ WF_vars(PauseCampaignHandler)
    /\ WF_vars(ResumeCampaignHandler)
    /\ \A t \in 1..MaxTasks : WF_vars(Finish(t)) /\ WF_vars(t \in TaskIds /\ RetryDue(t))

\* ======================= properties =======================
Executing(t) == {w \in workers : w.id = t /\ w.pc = "execute"}

\* C1: a task is handed to the delivery engine by at most one worker per claim:
\* at any time at most one goroutine is executing a task, and one is exactly
\* when the row's status is processing, whatever the interleaving of the
\* instances' ticks.
C1_SingleClaim ==
    \A t \in TaskIds :
        /\ Cardinality(Executing(t)) <= 1
        /\ (Executing(t) # {}) <=> (queue[t].status = "processing")

\* two ticks selected the same task, one has claimed it and the other is about
\* to run its conditional update on it (and get zero rows)
C1_Witness ==
    \E i \in Instances, w \in workers :
        /\ w.pc = "execute"
        /\ w.inst # i
        /\ tick[i].pc = "claim"
        /\ Head(tick[i].sel).id = w.id
        /\ RowsAffected(w.id) = 0

\* C2: every task has retries <= MaxRetries, and a dead task has
\* retries >= MaxRetries.
C2_RetriesBounded ==
    \A t \in TaskIds :
        /\ queue[t].retries <= MaxRetries
        /\ queue[t].status = "dead" => queue[t].retries >= MaxRetries

\* a task went dead after a tick claimed it on a stale snapshot of its retries
C2_Witness ==
    \E t \in TaskIds : queue[t].status = "dead" /\ queue[t].retries = MaxRetries
\* ---- campaign accounting ----
\* a task the completion check must wait for
Outstanding(row) ==
    \/ row.status \in {"pending", "processing"}
    \/ (row.status = "failed" /\ row.retries < MaxRetries)

\* C3: a campaign in processing has sent_count = success_count + fail_count
\* and sent_count <= total_count.
C3_CountersConsistent ==
    campaign.status = "processing" =>
        /\ campaign.sent_count = campaign.success_count + campaign.fail_count
        /\ campaign.sent_count <= campaign.total_count

\* C4: the campaign's status changes to completed only in a state where none
\* of its tasks is pending, processing or failed with retries left.
C4_CompletedOnlyWhenDrained ==
    [][(campaign.status # "completed" /\ campaign'.status = "completed") =>
          \A t \in 1..Len(queue') :
              queue'[t].campaign_id = campaign.id => ~Outstanding(queue'[t])]_vars

\* goroutines that have written a terminal status and not yet counted it
Uncounted(success) == {w \in workers : w.pc = "count" /\ w.success = success}
WithStatus(st) == {t \in CampaignTasks : queue[t].status = st}

\* C5: each campaign task's terminal outcome is counted exactly once:
\* success_count counts the completed tasks and fail_count the dead ones (less
\* those whose goroutine is between its status write and its count), failed
\* tasks count nowhere, and sent_count moves only by the one increment that
\* follows each such count, or back to 0 when a start resets it.
C5_Counted ==
    /\ campaign.success_count = Cardinality(WithStatus("completed")) - Cardinality(Uncounted(TRUE))
    /\ campaign.fail_count = Cardinality(WithStatus("dead")) - Cardinality(Uncounted(FALSE))
    /\ \A w \in workers : w.pc # "execute" =>
          /\ queue[w.id].status \in {"completed", "dead"}
          /\ \A v \in workers : v.id = w.id => v = w

C5_SentStep ==
    campaign'.sent_count # campaign.sent_count =>
        \/ /\ campaign'.sent_count = campaign.sent_count + 1
           /\ \E w \in workers : /\ w.pc = "sent"
                                 /\ workers' = Replace(w, [w EXCEPT !.pc = "check"])
        \/ /\ campaign'.sent_count = 0
           /\ campaign'.status = "processing"
           /\ Len(fanout') = Len(fanout) + 1

C5_OutcomeCountedOnce == []C5_Counted /\ [][C5_SentStep]_vars

\* a dead task after transient failures, counted once, beside a completed one
C5_Witness ==
    /\ campaign.fail_count = 1
    /\ campaign.success_count = 1
    /\ campaign.sent_count = 2
    /\ workers = {}

\* ---- campaign handlers ----
StartTakesEffect ==
    /\ admin.op = "start"
    /\ admin'.op = "none"
    /\ (campaign' # campaign \/ fanout' # fanout)

\* C6: Start takes effect only when the campaign's status is draft or failed.
C6_StartOnlyFromDraftOrFailed ==
    [][StartTakesEffect => campaign.status \in {"draft", "failed"}]_vars

PauseTakesEffect == admin.op = "pause" /\ admin'.op = "none" /\ campaign' # campaign
ResumeTakesEffect == admin.op = "resume" /\ admin'.op = "none" /\ campaign' # campaign

\* C7: Pause changes the status only from processing to paused, Resume only
\* from paused to processing.
C7_PauseResumeTransitions ==
    [][/\ PauseTakesEffect =>
             campaign.status = "processing" /\ campaign'.status = "paused"
       /\ ResumeTakesEffect =>
             campaign.status = "paused" /\ campaign'.status = "processing"]_vars
\* ---- pause and the worker tick ----
\* C8: a tick selects (and so claims) no task of a campaign that was paused
\* when the tick read the paused campaigns, and a task already processing
\* when its campaign is paused still runs to completed, failed or dead.
C8_FindSkipsPaused ==
    \A i \in Instances :
        (tick[i].pc = "find" /\ tick'[i].pc = "claim") =>
            \A k \in 1..Len(tick'[i].sel) :
                tick'[i].sel[k].campaign_id \notin tick[i].paused

StatusOf(t) == IF t \in TaskIds THEN queue[t].status ELSE "none"

C8_InFlightFinishes ==
    \A t \in 1..MaxTasks :
        (StatusOf(t) = "processing" /\ campaign.status = "paused")
            ~> (StatusOf(t) \in {"completed", "failed", "dead"})

Pending == {t \in CampaignTasks : queue[t].status = "pending"}

C9_FindStep ==
    \A i \in Instances :
        (tick[i].pc = "find" /\ tick'[i] # tick[i]) =>
            LET eligible == Candidates(tick[i].paused)
            IN /\ tick'[i].pc = "claim" =>
                     /\ Len(tick'[i].sel) = Min(WorkerPool, Cardinality(eligible))
                     /\ \A k \in 1..Len(tick'[i].sel) :
                           /\ tick'[i].sel[k].id \in eligible
                           /\ tick'[i].sel[k].campaign_id \notin tick[i].paused
               /\ tick'[i].pc = "idle" => eligible = {}

C9_LeavesPendingByClaim ==
    \A t \in TaskIds :
        (queue[t].status = "pending" /\ queue'[t].status # "pending") =>
            /\ queue'[t].status = "processing"
            /\ \E i \in Instances : tick[i].pc = "claim" /\ Head(tick[i].sel).id = t

TrackingDistinct ==
    \A t \in CampaignTasks, u \in CampaignTasks :
        queue[t].tracking_id = queue[u].tracking_id => t = u

C10_FanoutExact ==
    /\ TrackingDistinct
    /\ Cardinality(CampaignTasks) + SumLeft(fanout) = campaign.total_count

C10_Done ==
    /\ campaign.status = "completed"
    /\ campaign.total_count >= 1
    /\ Cardinality(CampaignTasks) = campaign.total_count
    /\ campaign.sent_count = campaign.total_count
    /\ campaign.success_count = campaign.total_count
    /\ campaign.fail_count = 0

\* C10: a campaign started once on N recipients gets exactly N tasks with
\* pairwise distinct tracking ids, and when every delivery succeeds it ends
\* completed with sent_count = success_count = N and fail_count = 0.
C10_HappyPath == []C10_FanoutExact /\ <>[]C10_Done

\* every recipient of the largest campaign delivered and accounted for
C10_Witness ==
    /\ C10_Done
    /\ campaign.total_count = MaxContacts
    /\ workers = {}

\* C11: completed is a terminal status of the campaign: no step of any
\* operation (Start, Pause, Resume, scheduler promotion, the worker's
\* completion check, the fan-out goroutine's timeout / panic handler) changes
\* the status of a campaign that is completed.
C11_CompletedIsTerminal ==
    [][campaign.status = "completed" => campaign'.status = "completed"]_vars

\* rows of the email_logs table written for SendEmail call r
LogRows(r) == {i \in 1..Len(emailLog) : emailLog[i].req = r}

\* C12: a SendEmail call that has returned has written exactly one EmailLog
\* row, and that row says success exactly when the call returned nil.
C12_OneLogRowPerCall ==
    send.pc = "done" =>
        /\ Cardinality(LogRows(send.req)) = 1
        /\ \A i \in LogRows(send.req) :
               (emailLog[i].status = "success") <=> (send.result = "ok")

\* network steps of the running call
Cur(via) == {i \in 1..Len(wire) : wire[i].req = send.req /\ wire[i].via = via}
DirectTried == Cur("lookup") # {}
DefaultFailed == \E i \in Cur("relay") : ~wire[i].ok

C14_MXSequential ==
    send.pc # "idle" =>
        /\ \A i, j \in Cur("direct") :
              i < j => /\ wire[i].pref <= wire[j].pref
                       /\ wire[i].host # wire[j].host
                       /\ ~wire[i].ok
        /\ \A i \in Cur("direct"), k \in 1..Len(send.mx) :
              send.mx[k].pref < wire[i].pref =>
                  \E j \in Cur("direct") : j < i /\ wire[j].host = send.mx[k].host
        /\ send.result = "err" => \A i \in Cur("direct") : ~wire[i].ok
        /\ send.reason = "direct_send_failed" =>
              \A k \in 1..Len(send.mx) :
                  \E i \in Cur("direct") : wire[i].host = send.mx[k].host /\ ~wire[i].ok
        /\ (send.pc = "done" /\ DirectTried /\ send.mx = <<>>) =>
              /\ send.reason = "mx_lookup_failed"
              /\ Cur("direct") = {}
              /\ emailLog[Len(emailLog)].error = "mx_lookup_failed"

\* the first MX failed and the second, of higher preference value, took the message
C14_Witness ==
    /\ send.pc = "done"
    /\ send.result = "ok"
    /\ \E i, j \in Cur("direct") : i < j /\ wire[i].pref < wire[j].pref /\ wire[j].ok

\* a step of the read loop that took the line as the command verb
CommandStep(verb) == session'.n = session.n + 1 /\ session'.cmd = verb
EnvelopeKept ==
    /\ session'.from = session.from
    /\ session'.to = session.to
    /\ session'.data = session.data

\* C15: MAIL FROM is accepted only after HELO/EHLO, RCPT TO only after an
\* accepted MAIL FROM, DATA only after an accepted RCPT TO (and MAIL FROM);
\* a command that is refused leaves the envelope as it was.
C15_Step ==
    /\ (CommandStep("MAIL") /\ session'.reply = 250) => client.helo
    /\ (CommandStep("RCPT") /\ session'.reply = 250) => session.from # NoAddr
    /\ (CommandStep("DATA") /\ session'.reply = 354) =>
           (session.from # NoAddr /\ session.to # <<>>)
    /\ (\E verb \in {"MAIL", "RCPT", "DATA"} :
            CommandStep(verb) /\ session'.reply \notin {250, 354}) => EnvelopeKept
C15_CommandOrder == [][C15_Step]_vars

\* C16: STARTTLS without a TLS context is answered 454 and STARTTLS on an
\* upgraded session 503, both without a change of the session; the session
\* becomes upgraded only by a STARTTLS step with a TLS context, and then
\* sender, recipients and buffer are empty; so every Inbox row of an upgraded
\* session holds only what arrived after the upgrade.
C16_Step ==
    /\ (CommandStep("STARTTLS") /\ ~config.tls) =>
           (session'.reply = 454 /\ EnvelopeKept /\ ~session'.tlsEnabled)
    /\ (CommandStep("STARTTLS") /\ config.tls /\ session.tlsEnabled) =>
           (session'.reply = 503 /\ EnvelopeKept /\ session'.tlsEnabled)
    /\ (session'.tlsEnabled /\ ~session.tlsEnabled) =>
           /\ CommandStep("STARTTLS") /\ config.tls
           /\ session'.from = NoAddr /\ session'.to = <<>> /\ session'.data = <<>>
C16_NoPlainEnvelope ==
    \A i \in 1..Len(inbox) :
        inbox[i].tls =>
            /\ inbox[i].from.tls
            /\ inbox[i].to.tls
            /\ \A k \in 1..Len(inbox[i].data) : inbox[i].data[k].tls
C16_StartTLSResets == []C16_NoPlainEnvelope /\ [][C16_Step]_vars

\* an upgraded session has stored a message
C16_Witness == \E i \in 1..Len(inbox) : inbox[i].tls /\ Len(inbox[i].data) > 0

\* C17: with require_tls set, MAIL FROM on a session that is not upgraded is
\* answered 530 and records no sender; such a session never enters DATA mode
\* and writes no Inbox row, no ForwardLog row and no queue task.
C17_Step ==
    (config.require_tls /\ ~session.tlsEnabled) =>
        /\ CommandStep("MAIL") => (session'.reply = 530 /\ session'.from = NoAddr)
        /\ inbox' = inbox /\ forwardLog' = forwardLog /\ queue' = queue
C17_NoSender ==
    /\ (config.require_tls /\ ~session.tlsEnabled) =>
           (session.from = NoAddr /\ ~session.inData)
    /\ config.require_tls =>
           /\ \A i \in 1..Len(inbox) : inbox[i].tls
           /\ \A i \in 1..Len(forwardLog) : forwardLog[i].tls
C17_RequireTLS == []C17_NoSender /\ [][C17_Step]_vars

\* MAIL FROM was refused for want of TLS, and later, upgraded, the session
\* in the same run can still deliver: here the refusal itself
C17_Witness ==
    /\ config.require_tls
    /\ ~session.tlsEnabled
    /\ session.cmd = "MAIL"
    /\ session.reply = 530

\* C18: no Inbox row holds a line of a message that was answered 552.
C18_NoRejectedLines ==
    \A i \in 1..Len(inbox), k \in 1..MaxLines :
        k <= Len(inbox[i].data) => inbox[i].data[k].msg \notin client.rejected

\* connections from ip that were admitted in the window ending at time t
AdmittedFrom(ip, t) ==
    {i \in 1..Len(conns) :
        /\ conns[i].answer = 220
        /\ HostOf(conns[i].remoteIP) = ip
        /\ conns[i].at > t - Window
        /\ conns[i].at <= t}

\* C19: with a rate limit L > 0 at most L connections of one IP address are
\* admitted in any window, whatever their source ports; with L = 0 every
\* connection of an address that is not blacklisted is admitted.
C19_PerIPLimit ==
    /\ config.rate_limit > 0 =>
           \A ip \in RemoteIPs, t \in 0..clock :
               Cardinality(AdmittedFrom(ip, t)) <= config.rate_limit
    /\ config.rate_limit = 0 =>
           \A i \in 1..Len(conns) :
               conns[i].answer = IF isBlacklisted(conns[i].remoteIP) THEN 554 ELSE 220

\* the enabled rules of the domain whose name is the address's domain, case
\* ignored
Eligible(a) ==
    {r \in 1..Len(rules.rules) :
        /\ rules.rules[r].enabled
        /\ ~rules.rules[r].deleted
        /\ rules.rules[r].domain_id \in 1..Len(rules.domains)
        /\ ToLower(rules.domains[rules.rules[r].domain_id]) = ToLower(a.domain)}
OfType(a, type) == {r \in Eligible(a) : rules.rules[r].match_type = type}

\* exact > prefix > all
Precedence(r, exact, prefix, all) ==
    IF exact # {} THEN r \in exact
    ELSE IF prefix # {} THEN r \in prefix
    ELSE IF all # {} THEN r \in all
    ELSE r = 0

\* the match string taken as it is stored
ExactAsStored(a) ==
    {r \in OfType(a, "exact") : rules.rules[r].match_addr = ToLower(a.local)}
PrefixAsStored(a) ==
    {r \in OfType(a, "prefix") : HasPrefix(ToLower(a.local), rules.rules[r].match_addr)}

\* the match string lower-cased as well
ExactNoCase(a) ==
    {r \in OfType(a, "exact") : ToLower(rules.rules[r].match_addr) = ToLower(a.local)}
PrefixNoCase(a) ==
    {r \in OfType(a, "prefix") :
        HasPrefix(ToLower(a.local), ToLower(rules.rules[r].match_addr))}

WellFormed == {a \in RuleRecipients : a.at = 1}

\* C20 as claimed: the rule returned is an enabled exact rule of the domain
\* whose match string equals the lower-cased local part if there is one, else
\* a prefix rule whose match string is a prefix of it, else an all rule, else
\* none; RCPT TO is answered 550 exactly when that is none.
C20_StoredMatch ==
    \A a \in WellFormed :
        Precedence(findForwardRule(extractEmail(a)), ExactAsStored(a), PrefixAsStored(a),
                   OfType(a, "all"))
C20_RcptStored ==
    \A a \in WellFormed :
        handleRcptTo(Line("RCPT", TRUE, a)) =>
            (session'.reply = 550 <=>
                ExactAsStored(a) \cup PrefixAsStored(a) \cup OfType(a, "all") = {})
C20_NoCaseMatch ==
    \A a \in WellFormed :
        Precedence(findForwardRule(extractEmail(a)), ExactNoCase(a), PrefixNoCase(a),
                   OfType(a, "all"))
C20_RcptNoCase ==
    \A a \in RuleRecipients :
        handleRcptTo(Line("RCPT", TRUE, a)) =>
            /\ session'.reply = 550 <=>
                  /\ a.at # 0
                  /\ (a.at = 1 =>
                         ExactNoCase(a) \cup PrefixNoCase(a) \cup OfType(a, "all") = {})
            /\ session'.reply = 250 => session'.to = Append(session.to, Kept(extractEmail(a)))
            /\ session'.reply # 250 => session'.to = session.to
DataCompleted == session.inData /\ CommandStep("data") /\ session'.reply = 250

\* C21: when DATA completes, every recipient the session accepted gets exactly
\* one Inbox row and exactly one ForwardLog row, and nothing is enqueued for
\* forwarding without its Inbox row, whatever happened to the rules since
\* RCPT TO.
C21_Step ==
    DataCompleted =>
        /\ Len(inbox') = Len(inbox) + Len(session.to)
        /\ Len(forwardLog') = Len(forwardLog) + Len(session.to)
        /\ \A i \in 1..Len(session.to) :
              /\ inbox'[Len(inbox) + i].to = session.to[i]
              /\ Len(forwardLog') >= Len(forwardLog) + i
                    => forwardLog'[Len(forwardLog) + i].to = session.to[i]
        /\ Len(queue') - Len(queue) <= Len(inbox') - Len(inbox)
C21_InboxAndForwardLog == [][C21_Step]_vars

\* a caller that holds the flag: between the set and the reset of isRunning
Deleting(p) == cleaner[p].pc \in {"logs", "pluck", "delete", "find", "remove", "release"}

C22_OneAtATime == Cardinality({p \in Callers : Deleting(p)}) <= 1

C22_Step ==
    \A p \in Callers :
        (/\ cleaner[p].pc = "enter"
         /\ cleaner'[p] # cleaner[p]
         /\ \E q \in Callers \ {p} : Deleting(q))
        => /\ cleaner'[p] = [IdleCleaner EXCEPT !.result = "refused"]
           /\ UNCHANGED <<queue, purged, files, disk, emailLog, inbox, forwardLog>>

\* C22: at most one execution of RunCleanup is in its deleting phase at any
\* time, and an invocation that starts while another is running returns at
\* once without deleting a row or a file.
C22_MutualExclusion == []C22_OneAtATime /\ [][C22_Step]_vars

\* the scheduler's run was turned away while the handler's run was deleting
C22_Witness ==
    /\ cleaner["StartScheduler"].result = "refused"
    /\ cleaner["RunCleanupHandler"].pc \in {"delete", "remove"}

\* C23: cleanup deletes a queue row only if its status is completed or failed
\* and it was created before the cutoff of the run; a pending or processing
\* row and a row created at or after the cutoff are never deleted by it.
C23_Step ==
    \A t \in purged' \ purged :
        /\ queue[t].status \in {"completed", "failed"}
        /\ \E p \in Callers :
              cleaner[p].pc = "delete" /\ queue[t].created_at < cleaner[p].cutoff
C23_OnlyFinishedAndOld == [][C23_Step]_vars

\* C24: the path of every existing AttachmentFile row exists on disk, and the
\* path of a row that was removed (soft-deleted by a handler, hard-deleted by
\* cleanup) does not.
C24_RowsAndFiles ==
    \A f \in FileIDs :
        /\ files[f].state = "live" => files[f].path \in disk
        /\ files[f].state # "live" => files[f].path \notin disk


\* C25: at most one channel has default = true.
C25_OneDefault ==
    Cardinality({c \in LiveChannels : smtpConfigs[c].is_default}) <= 1

\* C26: no two contacts share the same (group_id, email) pair.
C26_UniqueInGroup ==
    \A c, d \in LiveContacts :
        (contacts[c].group_id = contacts[d].group_id /\ contacts[c].email = contacts[d].email)
            => c = d

\* C27: no two domains have names that are equal after lower-casing.
C27_UniqueUpToCase ==
    \A c, d \in 1..Len(rules.domains) :
        ToLower(rules.domains[c]) = ToLower(rules.domains[d]) => c = d

\* the migrations whose Action has run since the start in progress began
RanThisStart == SubSeq(migrator.ran, migrator.before + 1, Len(migrator.ran))

\* every Action that has run, over all starts, is 1, 2, 3, ... each once, and
\* the schema_versions table holds one row for each
C28_OnceAscending ==
    /\ \A i \in 1..Len(migrator.ran) : migrator.ran[i] = i
    /\ schema = migrator.ran

\* a start that ends has run precisely the migrations of its list that are
\* newer than the latest version recorded when it began, in ascending order
C28_Step ==
    MigrationsDone =>
        /\ Len(RanThisStart) =
               (IF migrator.migrations > migrator.currentVer
                THEN migrator.migrations - migrator.currentVer ELSE 0)
        /\ \A i \in 1..Len(RanThisStart) : RanThisStart[i] = migrator.currentVer + i
        /\ migrator.currentVer = IF migrator.before = 0 THEN 0
                                 ELSE migrator.ran[migrator.before]

C29_Defaults ==
    AppConfig.loaded =>
        /\ AppConfig.jwt_secret.text # ""
        /\ AppConfig.jwt_secret \notin weakKeys
        /\ AppConfig.port # ""
        /\ AppConfig.receiver_port # ""
        /\ AppConfig.receiver_max_msg_size # 0
        /\ AppConfig.receiver_rate_limit # 0
        /\ \A f \in DayFields : AppConfig.days[f] # 0

\* tracking ids of delivered campaign messages whose pixel has been served
\* and recorded
OpenedMessages ==
    {t \in TaskIds :
        /\ queue[t].campaign_id = campaign.id
        /\ queue[t].status = "completed"
        /\ \E i \in LogsOf(queue[t].tracking_id) : emailLog[i].opened}

\* C30: whatever the number of open-tracking requests for a delivered campaign
\* message, once they have been answered the campaign's open_count has been
\* raised exactly once for that message.
C30_CountedOnce ==
    InFlight("track") = {} => campaign.open_count = Cardinality(OpenedMessages)

\* addresses whose unsubscribe request has been answered
UnsubscribedAddresses ==
    {emailLog[i].recipient : i \in {j \in 1..Len(emailLog) : emailLog[j].unsubscribed}}

\* a campaign start expands no contact with an unsubscribed address, and an
\* unsubscribe request for a row already marked changes no table
C31_Step ==
    /\ (campaign.status # "processing" /\ campaign'.status = "processing") =>
           \A c \in TargetContacts : contacts[c].email \notin UnsubscribedAddresses
    /\ \A r \in InFlight("unsubscribe") :
           (Unsubscribe(r) /\ r.Unsubscribed) =>
               UNCHANGED <<emailLog, campaign, contacts>>

\* C31: after an unsubscribe request for a tracking id the recipient address
\* of that message is not expanded by a group campaign started later,
\* whatever groups hold a contact with that address; repeating the request
\* changes no further state.
C31_NeverTargetedAgain == [][C31_Step]_vars

HasSpecial(s) == \E i \in 1..Len(s) : s[i] \in Special

\* C32 as stated: escaping the escaped value again gives the escaped value.
C32_Idempotent ==
    \A r \in InFlight("substitute") : EscapeString(r.safe) = r.safe

\* C32: the escaped value holds none of < > " ' and each & in it begins an
\* entity; escaping it again gives the same value exactly when the contact's
\* field holds none of the five replaced characters.
C32_EscapedOnce ==
    \A r \in InFlight("substitute") :
        /\ \A i \in 1..Len(r.safe) : r.safe[i] \notin (Special \ {"&"})
        /\ \A i \in 1..Len(r.safe) :
               r.safe[i] = "&" => /\ i < Len(r.safe)
                                  /\ r.safe[i + 1] \in {"a", "#", "l", "g"}
        /\ (EscapeString(r.safe) = r.safe) <=> ~HasSpecial(r.value)
        /\ ~HasSpecial(r.value) => r.safe = r.value

\* a name with an ampersand has been escaped
C32_Witness ==
    \E r \in InFlight("substitute") :
        /\ r.field = "name"
        /\ r.value = <<"a", "&", "a">>
        /\ r.safe = <<"a", "&", "a", "m", "p", ";", "a">>

\* C33: every fetch of an attachment URL, by the send handler when it stages
\* the attachment or by the delivery engine when it sends, comes after the
\* internal-address check and goes to a host none of whose resolved addresses
\* is loopback, private or link-local.
C33_NoInternalFetch ==
    \A i \in 1..Len(wire) :
        wire[i].via = "fetch" => \A ip \in wire[i].resolved : ~Blocked(ip)

\* C34: a task left in 'processing' by a worker that was stopped is found
\* again, so that after a restart every enqueued task still reaches
\* 'completed' or 'dead'.
C34_EveryTaskEnds ==
    \A t \in 1..MaxTasks :
        (t \in TaskIds) ~> (t \in TaskIds /\ queue[t].status \in {"completed", "dead"})

\* C35: a non-empty secret encrypted under a key and decrypted under the same
\* key comes back unchanged, and under another key gives an error; a stored
\* value without the "enc:" prefix is returned as it is; the empty string is
\* encrypted to the empty string.
C35_RoundTrip ==
    \A r \in InFlight("secret") :
        /\ (~r.legacy /\ r.plaintext = <<>>) => r.stored = <<>>
        /\ (~r.legacy /\ r.plaintext # <<>>) => IsEncrypted(r.stored)
        /\ r.pc = "read" =>
               /\ (~r.legacy /\ r.plaintext # <<>> /\ r.with = r.secret)
                      => r.result = [err |-> FALSE, value |-> r.plaintext]
               /\ (~r.legacy /\ r.plaintext # <<>> /\ r.with # r.secret) => r.result.err
               /\ ~IsEncrypted(r.stored) => r.result = [err |-> FALSE, value |-> r.stored]

\* a secret encrypted under one key has been read under the other key, and a
\* legacy value has been read
C35_Witness ==
    \E r \in InFlight("secret") :
        /\ r.pc = "read"
        /\ ~r.legacy
        /\ Len(r.plaintext) = MaxPlainLen
        /\ r.with # r.secret
        /\ r.result.err

\* C36: whenever the campaign is completed its sent_count equals its
\* total_count and none of its tasks is pending, processing or failed with
\* retries left, also while the fan-out goroutine is still enqueuing.
C36_CompletedMeansAllSent ==
    campaign.status = "completed" =>
        /\ campaign.sent_count = campaign.total_count
        /\ \A t \in CampaignTasks : ~Outstanding(queue[t])

\* the campaign is paused, its tasks have all reached completed or dead during
\* the pause, their goroutines have returned, and the resume request has read
\* the campaign
ResumingDrained ==
    /\ campaign.status = "paused"
    /\ admin = [op |-> "resume", seen |-> "paused"]
    /\ FanoutDone
    /\ CampaignTasks # {}
    /\ \A t \in CampaignTasks : queue[t].status \in {"completed", "dead"}
    /\ workers = {}

\* C37: a campaign paused while its last tasks were in flight, whose tasks
\* reached completed or dead during the pause and which is then resumed,
\* eventually reaches status completed, with the ticks and goroutines fair.
C37_ResumedCompletes == ResumingDrained ~> (campaign.status = "completed")

\* C38, its second part: a tick's claim takes a failed task to processing only
\* when the task's next_retry time has come, whatever the interleaving of the
\* ticks and the goroutines.
C38_ClaimedWhenDue ==
    [][\A t \in TaskIds :
          (queue[t].status = "failed" /\ queue'[t].status = "processing") => queue[t].due]_vars

Absorbing == {"completed", "dead"}
Transitions == {<<"pending", "processing">>, <<"failed", "processing">>,
                <<"processing", "completed">>, <<"processing", "failed">>,
                <<"processing", "dead">>}

\* C39: a task that is completed or dead keeps its row as it is, no tick's
\* query selects it and no claim hands it to a goroutine; a task's status
\* changes only pending -> processing, failed -> processing and
\* processing -> completed, failed or dead.
C39_Step ==
    /\ \A t \in TaskIds \cap (1..Len(queue')) :
          /\ queue[t].status \in Absorbing => queue'[t] = queue[t]
          /\ queue'[t].status # queue[t].status
                => <<queue[t].status, queue'[t].status>> \in Transitions
    /\ \A i \in Instances :
          (tick[i].pc = "find" /\ tick'[i].pc = "claim") =>
              \A j \in 1..Len(tick'[i].sel) :
                  queue[tick'[i].sel[j].id].status \notin Absorbing
    /\ \A w \in workers' \ workers :
          w.pc = "execute" => queue[w.id].status \notin Absorbing

C39_TerminalAbsorbing == [][C39_Step]_vars

\* a tick is about to run its claim on a task that became completed or dead
\* after the tick selected it
C39_Witness ==
    \E i \in Instances :
        /\ tick[i].pc = "claim"
        /\ Head(tick[i].sel).id \in TaskIds
        /\ queue[Head(tick[i].sel).id].status \in Absorbing

\* the envelope of the session: sender, recipients and message text
EnvelopeEmpty(s) == s.from = NoAddr /\ s.to = <<>> /\ s.data = <<>>

\* the session has answered a line with this command and reply
Answered(cmd, code) ==
    /\ session.pc = "open"
    /\ session'.pc = "open"
    /\ session'.n = session.n + 1
    /\ session'.cmd = cmd
    /\ session'.reply = code

C40_InData == session.inData => (session.from # NoAddr /\ Len(session.to) >= 1)

C40_Step ==
    /\ (session.pc = "open" /\ session'.pc = "open" /\ session'.n = session.n + 1
            /\ session'.cmd = "DATA") =>
          IF session.from # NoAddr /\ Len(session.to) >= 1
          THEN Answered("DATA", 354) /\ session'.inData
          ELSE /\ Answered("DATA", 503)
               /\ ~session'.inData
               /\ session' = Replied(session, "DATA", 503)
    /\ (session'.inData /\ ~session.inData) => Answered("DATA", 354)
    /\ (session.pc = "open" /\ session'.pc = "open" /\ session'.to # session.to) =>
          \/ session'.to = <<>>
          \/ /\ Answered("RCPT", 250)
             /\ Len(session'.to) = Len(session.to) + 1
             /\ SubSeq(session'.to, 1, Len(session.to)) = session.to
    /\ (session.inData /\ Answered("data", 250)) =>
          EnvelopeEmpty(session') /\ ~session'.inData
    /\ Answered("RSET", 250) => EnvelopeEmpty(session')
    /\ (~session.tlsEnabled /\ session'.tlsEnabled) => EnvelopeEmpty(session')
    /\ (inbox' # inbox \/ forwardLog' # forwardLog \/ queue' # queue) =>
          /\ session.inData
          /\ session.from # NoAddr /\ Len(session.to) >= 1
          /\ EnvelopeEmpty(session') /\ ~session'.inData

\* C40: DATA is answered 354, and the session enters data mode, only when the
\* sender is set and a recipient has been accepted since the envelope was last
\* emptied, and is answered 503 with the session unchanged otherwise;
\* end-of-data, RSET and a successful STARTTLS leave the envelope empty, and a
\* message is stored or forwarded only at the end-of-data of such an envelope.
C40_DataNeedsEnvelope == []C40_InData /\ [][C40_Step]_vars

\* a message has been stored and a DATA sent right after it was answered 503
C40_Witness ==
    /\ Len(inbox) >= 1
    /\ session.pc = "open"
    /\ session.cmd = "DATA"
    /\ session.reply = 503
    /\ session.tlsEnabled

====
